---- MODULE Spec2Model ----
(***************************************************************************)
(* Model of the hand-written MCP client of gopus (package mcp):           *)
(*   Client / ServerConnection   internal/mcp/manager.go  lines 622-990   *)
(*   protocol codec              internal/mcp/protocol.go                 *)
(*   StdioTransport              internal/mcp/builtin.go  lines 91-361    *)
(*   Registry                    package mcp, registry file               *)
(* Threads are the caller tasks (goroutines calling AddServer,            *)
(* RemoveServer, CallTool) and one dispatch goroutine (handleMessages)    *)
(* per connection.  The provider process, the caller's context and the    *)
(* timer of handleNotification's context are the environment.             *)
(***************************************************************************)
EXTENDS Integers, Sequences, FiniteSets, TLC

\* ---- bounds -----------------------------------------------------------
MaxID      == 4     \* cap on idGenerator: number of requests ever built
InboundCap == 2     \* capacity of StdioTransport.messages in the model
MaxMsgs    == 4     \* lines the providers write to stdout in one run
MaxTools   == 2     \* longest list of tools given to one RegisterTools call
ErrCap     == 1     \* capacity of StdioTransport.errors in the model

ServerIDs  == {"A", "B"}
ToolNames  == {"x", "y"}
Conns      == {1, 2}        \* ServerConnection objects that may be created
Tasks      == {"task"} \X {1, 2}
Disps      == {"disp"} \X Conns
Threads    == Tasks \cup Disps
Disp(c)    == <<"disp", c>>
NoThread   == <<"none", 0>>

\* ---- protocol.go ------------------------------------------------------
MethodInitialize       == "initialize"
MethodInitialized      == "notifications/initialized"
MethodToolsList        == "tools/list"
MethodToolsCall        == "tools/call"
MethodProgress         == "notifications/progress"
MethodToolsListChanged == "notifications/tools/list_changed"
MethodPing             == "ping"

\* Result payloads of a response, by what the client can do with them:
\*   "err" the response carries an RPC error, "bad" its result does not
\*   unmarshal, "r0"/"r1" two results that unmarshal.
Payloads == {"err", "bad", "r0", "r1"}

\* InitializeResult.Capabilities.Tools != nil
CapsTools(pay) == pay = "r1"
\* ToolsListResult.Tools (names)
ListedTools(pay) == IF pay = "r0" THEN {"x"} ELSE {"x", "y"}

\* variant: reads the counter without advancing it (Load in place of Add(1))
nextID_Load(g) == g
\* nextID: idGenerator.Add(1); the new counter value is the id.
nextID(g) == g + 1

\* Message: ID *int64 (hasID = ID != nil), Method string ("" when absent)
Msg(hasID, id, method, pay) ==
    [hasID |-> hasID, id |-> id, method |-> method, pay |-> pay]
IsRequest(m)      == m.hasID /\ m.method # ""
IsNotification(m) == ~m.hasID /\ m.method # ""
\* variant: every message without a method is a response
IsResponse_NoMethod(m) == m.method = ""
IsResponse(m)     == m.hasID /\ m.method = ""
\* ToResponse keeps ID, Result and Error
ToResponse(m)     == [id |-> m.id, pay |-> m.pay]

\* ---- connection states (types.go) -------------------------------------
StateDisconnected == "Disconnected"
StateConnecting   == "Connecting"
StateConnected    == "Connected"
StateError        == "Error"

VARIABLES
    idGenerator,  \* protocol.go: var idGenerator atomic.Int64
    nconn,        \* number of ServerConnection objects created so far
    conns,        \* conns[c]: the ServerConnection object c
    trans,        \* trans[c]: the StdioTransport given to connection c
    servers,      \* Client.servers: server id -> connection (0 = no entry)
    registry,     \* Registry.tools: tool name -> Tool.ServerID ("-" = no entry)
    cmu,          \* Client.mu: the thread holding the write lock
    thr,          \* thr[t]: position and locals of thread t
    nmsgs         \* lines written by providers so far

vars == <<idGenerator, nconn, conns, trans, servers, registry, cmu, thr, nmsgs>>

NoConn == [ID |-> "-", State |-> "none", Tools |-> FALSE, LastError |-> FALSE,
           pendingReqs |-> {}]
\* NoLine: the standard-output reader has read no line yet
NoLine == [key_id |-> "-", method |-> "-"]
NoTrans == [started |-> FALSE, closed |-> FALSE, closeErr |-> FALSE,
            alive |-> FALSE, messages |-> <<>>, stdin |-> <<>>,
            stdinOpen |-> FALSE,     \* t.stdin is an open pipe
            nclose |-> 0,            \* times the body of Close has run
            tmu |-> <<"none", 0>>,   \* t.mu: the thread holding it
            line |-> NoLine,         \* the line readLoop read last
            errors |-> 0,            \* errors waiting in t.errors
            dropped |-> FALSE,       \* readLoop dropped the line it read last
            lostErr |-> FALSE,       \* sendError discarded its last error
            badSeen |-> FALSE,       \* readLoop has met a line that did not parse
            answeredIDs |-> {},      \* ids whose response the child has written
            droppedIDs |-> {},       \* ids whose response readLoop dropped
            burst |-> FALSE,         \* readLoop has dropped a notification
            burstAt |-> 0,           \* idGenerator when it first did
            feedsClosed |-> FALSE,   \* close(t.messages); close(t.errors)
            panicked |-> FALSE,      \* a goroutine sent on a closed feed
            stdout |-> <<>>,         \* lines in the stdout pipe, not yet read
            stderr |-> 0,            \* lines in the stderr pipe, not yet read
            reading |-> FALSE,       \* readLoop is in its loop
            waited |-> FALSE]        \* cmd.Wait has returned in waitLoop

NoSnapS == [i \in ServerIDs |-> 0]
NoSnapR == [n \in ToolNames |-> "-"]

\* what a call returned: <<"ok", 0>>, or the kind of error with the
\* connection it came from (0 when it came from none)
NoRet == <<"-", 0>>
IdleRec == [pc |-> "idle", op |-> "-", arg |-> "-", conn |-> 0, cont |-> "-",
            reqID |-> 0, chan |-> <<>>, res |-> "-", resID |-> 0,
            ctxDone |-> FALSE,
            answered |-> "-", snapS |-> NoSnapS, snapR |-> NoSnapR,
            visited |-> <<>>, errs |-> <<>>, tools |-> <<>>,
            script |-> <<>>, held |-> {},
            watch |-> FALSE, again |-> FALSE, ret |-> NoRet]

Init ==
    /\ idGenerator = 0
    /\ nconn = 0
    /\ conns = [c \in Conns |-> NoConn]
    /\ trans = [c \in Conns |-> NoTrans]
    /\ servers = [i \in ServerIDs |-> 0]
    /\ registry = [n \in ToolNames |-> "-"]
    /\ cmu = NoThread
    /\ thr = [t \in Threads |-> IF t \in Tasks THEN IdleRec
                                 ELSE [IdleRec EXCEPT !.pc = "off"]]
    /\ nmsgs = 0

\* ---- helpers ----------------------------------------------------------
Set(t, r)      == thr' = [thr EXCEPT ![t] = r]
ConnOf(t)      == thr[t].conn
\* a thread is inside sendRequest with its response channel created
HasChan(r)     == r.pc \in {"sr_send", "sr_wait"}
InSendRequest(r) == r.pc \in {"sr_new", "sr_send", "sr_wait"}
IsErr(res)     == res \in {"e_send", "e_ctx", "e_rpc"}
\* the operation returns out: the task is free to start the next one; a
\* caller that keeps the returned value (watch) still has it, with the name
\* and the argument of the call
Ret(r, out)    == IF r.watch
                  THEN [IdleRec EXCEPT !.watch = TRUE, !.op = r.op, !.arg = r.arg,
                                       !.again = r.again, !.ret = out]
                  ELSE IdleRec
\* enter sendRequest on connection c; cont names the caller to return to
Call(r, c, cont) == [r EXCEPT !.pc = "sr_new", !.conn = c, !.cont = cont,
                              !.reqID = 0, !.chan = <<>>, !.res = "-", !.resID = 0]
MethodOf(cont) == CASE cont = "init"  -> MethodInitialize
                    [] cont = "call"  -> MethodToolsCall
                    [] OTHER          -> MethodToolsList

AfterPC(cont)  == CASE cont = "init"  -> "after_init"
                    [] cont = "list"  -> "after_list"
                    [] cont = "call"  -> "after_call"
                    [] OTHER          -> "after_notif"

\* ---- Registry ---------------------------------------------------------
RegisterTools(reg, serverID, tools) ==
    [n \in ToolNames |-> IF n \in tools THEN serverID ELSE reg[n]]
UnregisterServer(reg, serverID) ==
    [n \in ToolNames |-> IF reg[n] = serverID THEN "-" ELSE reg[n]]
GetTool(reg, name) == reg[name]
Clear(reg) == [n \in DOMAIN reg |-> "-"]

\* ---- StdioTransport ---------------------------------------------------
\* Send: fails when closed or not started, when ctx is done, and when the
\* write to the child's stdin fails (the child has exited).
\* t.stdin.Write fails: the pipe was closed by Close or the child has exited
\* variant: a write to the pipe always goes through
WriteFails_Never(tr) == FALSE
WriteFails(tr) == ~tr.stdinOpen \/ ~tr.alive
SendFails(tr, ctxDone) == tr.closed \/ ~tr.started \/ ctxDone \/ WriteFails(tr)
\* Start: cmd.Start() succeeded; t.started = true
Started(tr) == [tr EXCEPT !.started = TRUE, !.alive = TRUE, !.stdinOpen = TRUE,
                          !.reading = TRUE]
\* stdin keeps the methods written to the child in the order in which each
\* was written for the first time
Methods(log) == {log[k] : k \in 1..Len(log)}
Written(tr, method) ==
    [tr EXCEPT !.stdin = IF method \in Methods(@) THEN @ ELSE Append(@, method)]
\* Close: if t.closed { return t.closeErr }
\* variant: Close does not look at t.closed
AlreadyClosed_Never(tr) == FALSE
AlreadyClosed(tr) == tr.closed
\* t.closed = true
CloseMark(tr) == [tr EXCEPT !.closed = TRUE]
\* the steps of the rest of Close.  t.stdin.Close():
CloseStdin(tr) == [tr EXCEPT !.stdinOpen = FALSE]
\* t.cmd.Process.Kill(): out is what it returns: "nil" (the signal was
\* delivered), "finished" (os: process already finished) or "other"
KillOutcomes(tr) == IF tr.alive THEN {"nil", "other"} ELSE {"nil", "finished"}
Kill(tr, out) == IF tr.alive /\ out = "nil" THEN [tr EXCEPT !.alive = FALSE] ELSE tr
\* variant: every error of Kill is reported
KillReported_All(out) == out # "nil"
\* if err.Error() != "os: process already finished" { errs = append(...) }
KillReported(out) == out \notin {"nil", "finished"}
\* close(t.messages); close(t.errors)
CloseFeeds(tr) == [tr EXCEPT !.feedsClosed = TRUE]
\* the rest of Close in one step: closes stdin, kills the process, closes
\* the feeds; e is whether closing stdin or the kill reported an error.
CloseBody(tr, e) ==
    LET a == IF tr.started THEN Kill(CloseStdin(tr), "nil") ELSE tr IN
    [CloseFeeds(a) EXCEPT !.closeErr = e, !.nclose = @ + 1]
\* a whole Close call; what it returns is closeErr
Closed(tr, e) == IF AlreadyClosed(tr) THEN tr ELSE CloseBody(CloseMark(tr), e)

\* ---- ServerConnection.sendRequest (run by thread t) -------------------
\* NewRequest takes the next id; respChan := make(chan, 1);
\* pendingReqs[req.ID] = respChan
AddPending(pend, id) == pend \cup {id}
SR_New(t) ==
    /\ thr[t].pc = "sr_new"
    /\ idGenerator < MaxID
    /\ idGenerator' = nextID(idGenerator)
    /\ conns' = [conns EXCEPT ![ConnOf(t)].pendingReqs = AddPending(@, nextID(idGenerator))]
    /\ Set(t, [thr[t] EXCEPT !.pc = "sr_send", !.reqID = nextID(idGenerator), !.chan = <<>>])
    /\ UNCHANGED <<nconn, trans, servers, registry, cmu, nmsgs>>

\* deferred: delete(conn.pendingReqs, req.ID)
\* variant: sendRequest without the deferred delete
DeletePending_Never(pend, id) == pend
DeletePending(pend, id) == pend \ {id}
\* sendRequest returns res to its caller; the deferred delete runs on the way out
Return(t, res, resID) ==
    /\ conns' = [conns EXCEPT ![ConnOf(t)].pendingReqs = DeletePending(@, thr[t].reqID)]
    /\ Set(t, [thr[t] EXCEPT !.pc = AfterPC(thr[t].cont), !.chan = <<>>,
                              !.res = res, !.resID = resID])

\* Transport.Send(ctx, req); an error is returned at once
SR_Send(t) ==
    /\ thr[t].pc = "sr_send"
    /\ LET c == ConnOf(t) IN
       IF SendFails(trans[c], thr[t].ctxDone)
       THEN /\ Return(t, "e_send", 0)
            /\ UNCHANGED trans
       ELSE /\ trans' = [trans EXCEPT ![c] = Written(@, MethodOf(thr[t].cont))]
            /\ Set(t, [thr[t] EXCEPT !.pc = "sr_wait"])
            /\ UNCHANGED conns
    /\ UNCHANGED <<idGenerator, nconn, servers, registry, cmu, nmsgs>>

\* variant: the wait has no case for the context
SR_Wait_NoCtx(t) ==
    /\ thr[t].pc = "sr_wait"
    /\ thr[t].chan # <<>>
    /\ LET resp == Head(thr[t].chan) IN
       Return(t, IF resp.pay = "err" THEN "e_rpc" ELSE resp.pay, resp.id)
    /\ UNCHANGED <<idGenerator, nconn, trans, servers, registry, cmu, nmsgs>>
\* variant: the wait also ends when the transport has been closed
SR_Wait_FailsOnClose(t) ==
    /\ thr[t].pc = "sr_wait"
    /\ \/ /\ thr[t].chan # <<>>
          /\ LET resp == Head(thr[t].chan) IN
             Return(t, IF resp.pay = "err" THEN "e_rpc" ELSE resp.pay, resp.id)
       \/ /\ thr[t].ctxDone
          /\ Return(t, "e_ctx", 0)
       \/ /\ trans[ConnOf(t)].closed
          /\ Return(t, "e_send", 0)
    /\ UNCHANGED <<idGenerator, nconn, trans, servers, registry, cmu, nmsgs>>
\* select { case resp := <-respChan: ... case <-ctx.Done(): ... }
SR_Wait(t) ==
    /\ thr[t].pc = "sr_wait"
    /\ \/ /\ thr[t].chan # <<>>
          /\ LET resp == Head(thr[t].chan) IN
             Return(t, IF resp.pay = "err" THEN "e_rpc" ELSE resp.pay, resp.id)
       \/ /\ thr[t].ctxDone
          /\ Return(t, "e_ctx", 0)
    /\ UNCHANGED <<idGenerator, nconn, trans, servers, registry, cmu, nmsgs>>

sendRequest(t) == SR_New(t) \/ SR_Send(t) \/ SR_Wait(t)

\* ---- Client.AddServer (task t) ----------------------------------------
\* variant: the transport is started before the existence check
AS_Begin_StartsFirst(t, id, lim) ==
    /\ thr[t].pc = "idle"
    /\ cmu = NoThread
    /\ nconn < lim
    /\ nconn' = nconn + 1
    /\ LET r == [thr[t] EXCEPT !.op = "add", !.arg = id, !.again = FALSE, !.ret = NoRet,
                               !.snapS = servers, !.snapR = registry] IN
       IF servers[id] # 0
       THEN /\ Set(t, Ret(r, <<"e_exists", 0>>))
            /\ trans' = [trans EXCEPT ![nconn + 1] = Started(@)]
            /\ UNCHANGED <<conns, cmu>>
       ELSE /\ conns' = [conns EXCEPT ![nconn + 1] =
                           [NoConn EXCEPT !.ID = id, !.State = StateConnecting]]
            /\ cmu' = t
            /\ Set(t, [r EXCEPT !.pc = "as_start", !.conn = nconn + 1])
            /\ UNCHANGED trans
    /\ UNCHANGED <<idGenerator, servers, registry, nmsgs>>
\* c.mu.Lock(); existence check; conn := &ServerConnection{State: StateConnecting}
AS_Begin(t, id, lim) ==
    /\ thr[t].pc = "idle"
    /\ cmu = NoThread
    /\ LET r == [thr[t] EXCEPT !.op = "add", !.arg = id, !.again = FALSE, !.ret = NoRet,
                               !.snapS = servers, !.snapR = registry] IN
       IF servers[id] # 0
       THEN /\ Set(t, Ret(r, <<"e_exists", 0>>))
            /\ UNCHANGED <<nconn, conns, cmu>>
       ELSE /\ nconn < lim
            /\ nconn' = nconn + 1
            /\ conns' = [conns EXCEPT ![nconn + 1] =
                           [NoConn EXCEPT !.ID = id, !.State = StateConnecting]]
            /\ cmu' = t
            /\ Set(t, [r EXCEPT !.pc = "as_start", !.conn = nconn + 1])
    /\ UNCHANGED <<idGenerator, trans, servers, registry, nmsgs>>

\* variant: the failure path leaves the record in the servers map
AS_Fail_KeepsRecord(t, e) ==
    LET c == ConnOf(t) IN
    /\ conns' = [conns EXCEPT ![c].State = StateError, ![c].LastError = TRUE]
    /\ trans' = [trans EXCEPT ![c] = Closed(@, e)]
    /\ servers' = [servers EXCEPT ![thr[t].arg] = c]
    /\ cmu' = NoThread
    /\ Set(t, Ret(thr[t], <<"e_init", c>>))
    /\ UNCHANGED <<idGenerator, nconn, registry, nmsgs>>
\* variant: the failure path resets the state to Disconnected
AS_Fail_Disconnects(t, e) ==
    LET c == ConnOf(t) IN
    /\ conns' = [conns EXCEPT ![c].State = StateDisconnected, ![c].LastError = TRUE]
    /\ trans' = [trans EXCEPT ![c] = Closed(@, e)]
    /\ cmu' = NoThread
    /\ Set(t, Ret(thr[t], <<"e_init", c>>))
    /\ UNCHANGED <<idGenerator, nconn, servers, registry, nmsgs>>
\* the failure path of AddServer after the transport was started:
\* conn.State = StateError; transport.Close(); return error (c.mu released)
AS_Fail(t, e) ==
    LET c == ConnOf(t) IN
    /\ conns' = [conns EXCEPT ![c].State = StateError, ![c].LastError = TRUE]
    /\ trans' = [trans EXCEPT ![c] = Closed(@, e)]
    /\ cmu' = NoThread
    /\ Set(t, Ret(thr[t], <<"e_init", c>>))
    /\ UNCHANGED <<idGenerator, nconn, servers, registry, nmsgs>>

\* transport.Start(ctx); go c.handleMessages(conn); then initializeServer
AS_Start(t) ==
    /\ thr[t].pc = "as_start"
    /\ LET c == ConnOf(t) IN
       \/ /\ conns' = [conns EXCEPT ![c].State = StateError, ![c].LastError = TRUE]
          /\ cmu' = NoThread
          /\ Set(t, Ret(thr[t], <<"e_start", c>>))
          /\ UNCHANGED trans
       \/ /\ trans' = [trans EXCEPT ![c] = Started(@)]
          /\ thr' = [thr EXCEPT ![t] = Call(thr[t], c, "init"),
                                ![Disp(c)] = [IdleRec EXCEPT !.pc = "recv", !.conn = c]]
          /\ UNCHANGED <<conns, cmu>>
    /\ UNCHANGED <<idGenerator, nconn, servers, registry, nmsgs>>

\* initializeServer after sendRequest(initialize) returned
AS_AfterInit(t) ==
    /\ thr[t].pc = "after_init"
    /\ LET c == ConnOf(t) IN
       IF IsErr(thr[t].res) \/ thr[t].res = "bad"
       THEN \E e \in BOOLEAN : AS_Fail(t, e)
       ELSE /\ conns' = [conns EXCEPT ![c].Tools = CapsTools(thr[t].res),
                                      ![c].State = StateConnected]
            /\ Set(t, [thr[t] EXCEPT !.pc = "as_notify"])
            /\ UNCHANGED <<idGenerator, nconn, trans, servers, registry, cmu, nmsgs>>

\* conn.Transport.Send(ctx, notification); on success fetchTools begins
AS_Notify(t) ==
    /\ thr[t].pc = "as_notify"
    /\ LET c == ConnOf(t) IN
       IF SendFails(trans[c], thr[t].ctxDone)
       THEN \E e \in BOOLEAN : AS_Fail(t, e)
       ELSE /\ trans' = [trans EXCEPT ![c] = Written(@, MethodInitialized)]
            /\ Set(t, IF conns[c].Tools THEN Call(thr[t], c, "list")
                      ELSE [thr[t] EXCEPT !.pc = "as_store"])
            /\ UNCHANGED <<idGenerator, nconn, conns, servers, registry, cmu, nmsgs>>

\* variant: fetchTools that parses the tools/list result and drops it
AS_AfterList_NoRegister(t) ==
    /\ thr[t].pc = "after_list"
    /\ Set(t, [thr[t] EXCEPT !.pc = "as_store"])
    /\ UNCHANGED <<idGenerator, nconn, conns, trans, servers, registry, cmu, nmsgs>>
\* variant: the error of fetchTools is dropped instead of being recorded
AS_AfterList_NoLastError(t) ==
    /\ thr[t].pc = "after_list"
    /\ LET c == ConnOf(t) IN
       IF IsErr(thr[t].res) \/ thr[t].res = "bad"
       THEN UNCHANGED registry
       ELSE registry' = RegisterTools(registry, conns[c].ID, ListedTools(thr[t].res))
    /\ Set(t, [thr[t] EXCEPT !.pc = "as_store"])
    /\ UNCHANGED <<idGenerator, nconn, conns, trans, servers, cmu, nmsgs>>
\* fetchTools after sendRequest(tools/list) returned; an error is not fatal
AS_AfterList(t) ==
    /\ thr[t].pc = "after_list"
    /\ LET c == ConnOf(t) IN
       IF IsErr(thr[t].res) \/ thr[t].res = "bad"
       THEN /\ conns' = [conns EXCEPT ![c].LastError = TRUE]
            /\ UNCHANGED registry
       ELSE /\ registry' = RegisterTools(registry, conns[c].ID, ListedTools(thr[t].res))
            /\ UNCHANGED conns
    /\ Set(t, [thr[t] EXCEPT !.pc = "as_store"])
    /\ UNCHANGED <<idGenerator, nconn, trans, servers, cmu, nmsgs>>

\* c.servers[id] = conn; return nil
AS_Store(t) ==
    /\ thr[t].pc = "as_store"
    /\ servers' = [servers EXCEPT ![thr[t].arg] = ConnOf(t)]
    /\ cmu' = NoThread
    /\ Set(t, Ret(thr[t], <<"ok", 0>>))
    /\ UNCHANGED <<idGenerator, nconn, conns, trans, registry, nmsgs>>

\* ids: the server ids the callers use; lim: connection objects that may be made
AddServer(t, ids, lim) ==
    \/ \E id \in ids : AS_Begin(t, id, lim)
    \/ AS_Start(t) \/ AS_AfterInit(t) \/ AS_Notify(t) \/ AS_AfterList(t) \/ AS_Store(t)

\* ---- Client.RemoveServer (task t) -------------------------------------
RS_Begin(t, id) ==
    /\ thr[t].pc = "idle"
    /\ cmu = NoThread
    /\ LET r == [thr[t] EXCEPT !.op = "remove", !.arg = id, !.again = FALSE, !.ret = NoRet] IN
       IF servers[id] = 0
       THEN /\ Set(t, Ret(r, <<"e_notfound", 0>>))
            /\ UNCHANGED cmu
       ELSE /\ cmu' = t
            /\ Set(t, [r EXCEPT !.pc = "rs_unreg", !.conn = servers[id]])
    /\ UNCHANGED <<idGenerator, nconn, conns, trans, servers, registry, nmsgs>>

\* variant: RemoveServer leaves the tools of the server in the registry
RS_Unreg_Skip(t) ==
    /\ thr[t].pc = "rs_unreg"
    /\ Set(t, [thr[t] EXCEPT !.pc = "rs_close"])
    /\ UNCHANGED <<idGenerator, nconn, conns, trans, servers, registry, cmu, nmsgs>>
\* c.registry.UnregisterServer(id)
RS_Unreg(t) ==
    /\ thr[t].pc = "rs_unreg"
    /\ registry' = UnregisterServer(registry, thr[t].arg)
    /\ Set(t, [thr[t] EXCEPT !.pc = "rs_close"])
    /\ UNCHANGED <<idGenerator, nconn, conns, trans, servers, cmu, nmsgs>>

\* conn.Transport.Close(): an error returns before delete(c.servers, id)
RS_Close(t) ==
    /\ thr[t].pc = "rs_close"
    /\ \E e \in BOOLEAN :
         LET c  == ConnOf(t)
             tr == Closed(trans[c], e) IN
         /\ trans' = [trans EXCEPT ![c] = tr]
         /\ IF tr.closeErr
            THEN /\ Set(t, Ret(thr[t], <<"e_close", c>>))
                 /\ UNCHANGED servers
            ELSE /\ servers' = [servers EXCEPT ![thr[t].arg] = 0]
                 /\ Set(t, Ret(thr[t], <<"ok", 0>>))
    /\ cmu' = NoThread
    /\ UNCHANGED <<idGenerator, nconn, conns, registry, nmsgs>>

RemoveServer(t) == (\E id \in ServerIDs : RS_Begin(t, id)) \/ RS_Unreg(t) \/ RS_Close(t)

\* ---- Client.Close (task t) --------------------------------------------
\* the connections in c.servers
Recorded == {servers[id] : id \in ServerIDs} \ {0}
Range(q) == {q[k] : k \in 1..Len(q)}
\* c.mu.Lock(); var errs []error
CL_Begin(t) ==
    /\ thr[t].pc = "idle"
    /\ cmu = NoThread
    /\ cmu' = t
    /\ Set(t, [thr[t] EXCEPT !.pc = "cl_loop", !.op = "close", !.arg = "-",
                              !.again = (thr[t].op = "close"),
                              !.ret = IF thr[t].op = "close" THEN @ ELSE NoRet,
                              !.snapS = servers, !.visited = <<>>, !.errs = <<>>])
    /\ UNCHANGED <<idGenerator, nconn, conns, trans, servers, registry, nmsgs>>
\* one round of  for id, conn := range c.servers  (in the order of the map):
\* conn.Transport.Close(); an error is appended to errs
CL_Each(t) ==
    /\ thr[t].pc = "cl_loop"
    /\ \E c \in Recorded \ Range(thr[t].visited) : \E e \in BOOLEAN :
         LET tr == Closed(trans[c], e) IN
         /\ trans' = [trans EXCEPT ![c] = tr]
         /\ Set(t, [thr[t] EXCEPT !.visited = Append(@, c),
                      !.errs = IF tr.closeErr THEN Append(@, <<"e_close", c>>) ELSE @])
    /\ UNCHANGED <<idGenerator, nconn, conns, servers, registry, cmu, nmsgs>>
\* variant: returns the last close error instead of the first
CL_End_LastError(t) ==
    /\ thr[t].pc = "cl_loop"
    /\ Recorded \subseteq Range(thr[t].visited)
    /\ servers' = [i \in ServerIDs |-> 0]
    /\ registry' = Clear(registry)
    /\ cmu' = NoThread
    /\ Set(t, Ret(thr[t], IF thr[t].errs = <<>> THEN <<"ok", 0>>
                          ELSE thr[t].errs[Len(thr[t].errs)]))
    /\ UNCHANGED <<idGenerator, nconn, conns, trans, nmsgs>>
\* c.servers = make(map); c.registry.Clear(); return errs[0] or nil
CL_End(t) ==
    /\ thr[t].pc = "cl_loop"
    /\ Recorded \subseteq Range(thr[t].visited)
    /\ servers' = [i \in ServerIDs |-> 0]
    /\ registry' = Clear(registry)
    /\ cmu' = NoThread
    /\ Set(t, Ret(thr[t], IF thr[t].errs = <<>> THEN <<"ok", 0>> ELSE thr[t].errs[1]))
    /\ UNCHANGED <<idGenerator, nconn, conns, trans, nmsgs>>
ClientClose(t) == CL_Begin(t) \/ CL_Each(t) \/ CL_End(t)

\* ---- Client.CallTool (task t) -----------------------------------------
\* variant: builds the request (and takes its id) before the registry lookup
CT_Begin_TakesID(t, name) ==
    /\ thr[t].pc = "idle"
    /\ LET r == [thr[t] EXCEPT !.op = "call", !.arg = name, !.again = FALSE, !.ret = NoRet] IN
       IF GetTool(registry, name) = "-"
       THEN Set(t, Ret(r, <<"e_toolnotfound", 0>>))
       ELSE Set(t, [r EXCEPT !.pc = "ct_lookup", !.arg = GetTool(registry, name)])
    /\ idGenerator' = nextID(idGenerator)
    /\ UNCHANGED <<nconn, conns, trans, servers, registry, cmu, nmsgs>>
\* c.registry.GetTool(name)
CT_Begin(t, name) ==
    /\ thr[t].pc = "idle"
    /\ LET r == [thr[t] EXCEPT !.op = "call", !.arg = name, !.again = FALSE, !.ret = NoRet] IN
       IF GetTool(registry, name) = "-"
       THEN Set(t, Ret(r, <<"e_toolnotfound", 0>>))
       ELSE Set(t, [r EXCEPT !.pc = "ct_lookup", !.arg = GetTool(registry, name)])
    /\ UNCHANGED <<idGenerator, nconn, conns, trans, servers, registry, cmu, nmsgs>>

\* c.mu.RLock(); conn, exists := c.servers[tool.ServerID]; c.mu.RUnlock()
CT_Lookup(t) ==
    /\ thr[t].pc = "ct_lookup"
    /\ cmu = NoThread
    /\ IF servers[thr[t].arg] = 0
       THEN Set(t, Ret(thr[t], <<"e_notconnected", 0>>))
       ELSE Set(t, Call(thr[t], servers[thr[t].arg], "call"))
    /\ UNCHANGED <<idGenerator, nconn, conns, trans, servers, registry, cmu, nmsgs>>

\* variant: a failed call marks its connection as failed and closes it
CT_After_TearsDown(t) ==
    /\ thr[t].pc = "after_call"
    /\ LET bad == IsErr(thr[t].res) \/ thr[t].res = "bad"
           c == ConnOf(t) IN
       /\ Set(t, Ret(thr[t], <<IF IsErr(thr[t].res) THEN thr[t].res
                                ELSE IF thr[t].res = "bad" THEN "e_parse" ELSE "ok",
                               IF bad THEN c ELSE 0>>))
       /\ conns' = IF bad THEN [conns EXCEPT ![c].State = StateError] ELSE conns
       /\ trans' = IF bad THEN [trans EXCEPT ![c] = Closed(@, FALSE)] ELSE trans
    /\ UNCHANGED <<idGenerator, nconn, servers, registry, cmu, nmsgs>>
\* after sendRequest(tools/call) returned: the error, a parse error, or the result
CT_After(t) ==
    /\ thr[t].pc = "after_call"
    /\ Set(t, Ret(thr[t], <<IF IsErr(thr[t].res) THEN thr[t].res
                             ELSE IF thr[t].res = "bad" THEN "e_parse" ELSE "ok",
                            IF IsErr(thr[t].res) \/ thr[t].res = "bad" THEN ConnOf(t) ELSE 0>>))
    /\ UNCHANGED <<idGenerator, nconn, conns, trans, servers, registry, cmu, nmsgs>>

CallTool(t) == (\E name \in ToolNames : CT_Begin(t, name)) \/ CT_Lookup(t) \/ CT_After(t)

\* ---- Client.handleMessages: the dispatch goroutine of connection c ----
RecvRec(c) == [IdleRec EXCEPT !.pc = "recv", !.conn = c]

\* handleResponse, under conn.mu: respChan, exists := conn.pendingReqs[resp.ID]
\* (the channel of request i is named by i; 0 = no entry)
\* variant: hands a response to the oldest pending request, whatever its id
LookupPending_Oldest(pend, id) ==
    IF pend = {} THEN 0 ELSE CHOOSE i \in pend : \A j \in pend : i <= j
LookupPending(pend, id) == IF id \in pend THEN id ELSE 0
\* variant: a channel without the capacity limit of 1
ChanPut_Unbounded(ch, resp) == Append(ch, resp)
\* select { case respChan <- resp: default: }  on a channel of capacity 1
ChanPut(ch, resp) == IF ch = <<>> THEN <<resp>> ELSE ch
\* the call that made channel ch, while it can still receive from it
Waiters(c, ch) == {t \in Threads : HasChan(thr[t]) /\ thr[t].conn = c /\ thr[t].reqID = ch}
handleResponse(c, resp) ==
    LET ch == LookupPending(conns[c].pendingReqs, resp.id)
        ws == Waiters(c, ch) IN
    IF ch = 0 \/ ws = {}
    THEN UNCHANGED thr
    ELSE LET w == CHOOSE t \in ws : TRUE IN
         thr' = [thr EXCEPT ![w].chan = ChanPut(@, resp)]

\* for msg := range conn.Transport.Receive(): take one message and classify it.
\* A response goes to handleResponse.  The lookup and the hand-over of
\* handleResponse are taken in one step: a caller that returns between the
\* two leaves a channel that is never read again, so the hand-over then has
\* the effect of finding no entry.
\* tools/list_changed makes a context with conn.defaultTimeout and calls
\* fetchTools, which reads conn.Capabilities.Tools without synchronisation:
\* the read sees the value written by initializeServer or the initial nil.
\* Every other message is consumed without effect.
D_Recv(c) ==
    LET d == Disp(c) IN
    /\ thr[d].pc = "recv"
    /\ trans[c].messages # <<>>
    /\ LET m == Head(trans[c].messages) IN
       /\ trans' = [trans EXCEPT ![c].messages = Tail(@)]
       /\ IF IsResponse(m)
          THEN handleResponse(c, ToResponse(m))
          ELSE IF IsNotification(m) /\ m.method = MethodToolsListChanged
          THEN \E seen \in {conns[c].Tools, FALSE} :
                  Set(d, IF seen THEN Call(thr[d], c, "notif") ELSE thr[d])
          ELSE UNCHANGED thr
    /\ UNCHANGED <<idGenerator, nconn, conns, servers, registry, cmu, nmsgs>>

\* the range loop ends when the feed is closed and drained
D_End(c) ==
    LET d == Disp(c) IN
    /\ thr[d].pc = "recv"
    /\ trans[c].messages = <<>>
    /\ trans[c].closed
    /\ Set(d, [thr[d] EXCEPT !.pc = "ended"])
    /\ UNCHANGED <<idGenerator, nconn, conns, trans, servers, registry, cmu, nmsgs>>

\* fetchTools on the dispatch goroutine after sendRequest returned; the
\* error is ignored by handleNotification
D_AfterNotif(c) ==
    LET d == Disp(c) IN
    /\ thr[d].pc = "after_notif"
    /\ IF IsErr(thr[d].res) \/ thr[d].res = "bad"
       THEN UNCHANGED registry
       ELSE registry' = RegisterTools(registry, conns[c].ID, ListedTools(thr[d].res))
    /\ Set(d, RecvRec(c))
    /\ UNCHANGED <<idGenerator, nconn, conns, trans, servers, cmu, nmsgs>>

handleMessages(c) == D_Recv(c) \/ D_End(c) \/ D_AfterNotif(c)

\* ---- environment ------------------------------------------------------
\* the caller's context is cancelled or its deadline passes; it is read by
\* Transport.Send and by the select of sendRequest
CtxDone(t) ==
    /\ thr[t].pc \in {"sr_send", "sr_wait", "as_notify"}
    /\ ~thr[t].ctxDone
    /\ Set(t, [thr[t] EXCEPT !.ctxDone = TRUE])
    /\ UNCHANGED <<idGenerator, nconn, conns, trans, servers, registry, cmu, nmsgs>>

\* the deadline of handleNotification's context (conn.defaultTimeout) passes
NotifTimeout(c) == CtxDone(Disp(c))

\* lines the provider of connection c may write to its stdout: a response
\* carrying the id of a request that is pending on some connection (sent
\* twice it is a duplicate; taken from the feed after its caller gave up it
\* is late; pending on another connection it is unknown here), and
\* notifications
PendingIDs == UNION {conns[k].pendingReqs : k \in Conns}
ProviderMsgs(c) ==
    {Msg(TRUE, i, "", p) : i \in PendingIDs, p \in Payloads}
    \cup {Msg(FALSE, 0, MethodToolsListChanged, "-"),
          Msg(FALSE, 0, MethodProgress, "-")}

\* the response answers the tools/list request that the dispatch loop of c
\* is waiting for, and the deadline of that wait has not passed
AnswersNotif(c, m) ==
    LET r == thr[Disp(c)] IN
    /\ IsResponse(m) /\ m.pay \in {"r0", "r1"}
    /\ r.pc = "sr_wait" /\ r.cont = "notif" /\ ~r.ctxDone /\ r.reqID = m.id

\* StdioTransport.readLoop: one line of the child's stdout is parsed and
\* pushed to the messages channel, or dropped when the channel is full
ProviderSend(c, m) ==
    /\ trans[c].started /\ trans[c].alive /\ ~trans[c].closed
    /\ nmsgs < MaxMsgs
    /\ nmsgs' = nmsgs + 1
    /\ trans' = [trans EXCEPT ![c].messages = IF Len(@) < InboundCap THEN Append(@, m) ELSE @]
    /\ IF AnswersNotif(c, m) /\ Len(trans[c].messages) < InboundCap
       THEN Set(Disp(c), [thr[Disp(c)] EXCEPT !.answered = m.pay])
       ELSE UNCHANGED thr
    /\ UNCHANGED <<idGenerator, nconn, conns, servers, registry, cmu>>

\* the child process exits on its own
ProviderExit(c) ==
    /\ trans[c].started /\ trans[c].alive
    /\ trans' = [trans EXCEPT ![c].alive = FALSE]
    /\ UNCHANGED <<idGenerator, nconn, conns, servers, registry, cmu, thr, nmsgs>>

\* ---- specifications --------------------------------------------------
\* ts: the caller tasks that run
NextOf(ts, ids, lim) ==
    \/ \E t \in ts : AddServer(t, ids, lim)
    \/ \E t \in ts : RemoveServer(t)
    \/ \E t \in ts : CallTool(t)
    \/ \E t \in ts \cup Disps : sendRequest(t)
    \/ \E c \in Conns : handleMessages(c)
    \/ \E t \in ts : CtxDone(t)
    \/ \E c \in Conns : NotifTimeout(c)
    \/ \E c \in Conns : \E m \in ProviderMsgs(c) : ProviderSend(c, m)
    \/ \E c \in Conns : ProviderExit(c)

\* One provider "A": from NewClient on, callers add, call and remove it.
Next == NextOf(Tasks, {"A"}, 1)
Spec == Init /\ [][Next]_vars

\* Two providers: the state after AddServer("A") has succeeded with the tools
\* x and y (a state Spec reaches, see Established), from which one caller
\* adds "B", calls tools and removes providers.
InitTwo ==
    /\ idGenerator = 2
    /\ nconn = 1
    /\ conns = [c \in Conns |-> IF c = 1
                 THEN [NoConn EXCEPT !.ID = "A", !.State = StateConnected, !.Tools = TRUE]
                 ELSE NoConn]
    /\ trans = [c \in Conns |-> IF c = 1
                 THEN [Started(NoTrans) EXCEPT
                          !.stdin = <<MethodInitialize, MethodInitialized, MethodToolsList>>]
                 ELSE NoTrans]
    /\ servers = [i \in ServerIDs |-> IF i = "A" THEN 1 ELSE 0]
    /\ registry = [n \in ToolNames |-> "A"]
    /\ cmu = NoThread
    /\ thr = [t \in Threads |-> IF t \in Tasks THEN IdleRec
                                 ELSE IF t = Disp(1) THEN RecvRec(1)
                                 ELSE [IdleRec EXCEPT !.pc = "off"]]
    /\ nmsgs = 2
NextTwo == NextOf({<<"task", 1>>}, ServerIDs, 2)
SpecTwo == InitTwo /\ [][NextTwo]_vars

\* ---- Registry with whole Tool values -----------------------------------
\* the registry as map[string]Tool: a name is mapped to NoTool when the map
\* has no entry for it, else to the Tool stored under it
Descs == {"d1", "d2"}
NoTool == [Name |-> "-", Description |-> "-", ServerID |-> "-"]
\* the Tool values a caller passes in; ServerID is not set yet (json:"-")
Tool == [Name : ToolNames, Description : Descs, ServerID : {""}]
RECURSIVE ToolLists(_)
ToolLists(n) == IF n = 0 THEN {<<>>}
                ELSE ToolLists(n - 1) \cup
                     {Append(q, tl) : q \in {l \in ToolLists(n - 1) : Len(l) = n - 1}, tl \in Tool}
NewRegistry == [n \in ToolNames |-> NoTool]
\* variant: an entry that exists is kept
SetTool_KeepExisting(tools, serverID, tool) ==
    IF tools[tool.Name] # NoTool THEN tools
    ELSE [tools EXCEPT ![tool.Name] = [tool EXCEPT !.ServerID = serverID]]
\* the body of the loop of RegisterTools: tool.ServerID = serverID;
\* r.tools[tool.Name] = tool
SetTool(tools, serverID, tool) ==
    [tools EXCEPT ![tool.Name] = [tool EXCEPT !.ServerID = serverID]]
RECURSIVE Registry_RegisterTools(_, _, _)
Registry_RegisterTools(tools, serverID, list) ==
    IF list = <<>> THEN tools
    ELSE Registry_RegisterTools(SetTool(tools, serverID, Head(list)), serverID, Tail(list))
\* variant: every entry is deleted
Registry_UnregisterServer_All(tools, serverID) ==
    [n \in DOMAIN tools |-> NoTool]
Registry_UnregisterServer(tools, serverID) ==
    [n \in DOMAIN tools |-> IF tools[n] # NoTool /\ tools[n].ServerID = serverID
                            THEN NoTool ELSE tools[n]]
Registry_GetTool(tools, name) == <<tools[name], tools[name] # NoTool>>
Registry_Count(tools) == Cardinality({n \in DOMAIN tools : tools[n] # NoTool})
\* ServerStats: a map with a key for every provider that owns an entry
Registry_ServerStats(tools) ==
    [sid \in {tools[n].ServerID : n \in {m \in DOMAIN tools : tools[m] # NoTool}} |->
        Cardinality({n \in DOMAIN tools : tools[n] # NoTool /\ tools[n].ServerID = sid})]
\* stats[sid] in Go: 0 when the map has no such key
StatOf(stats, sid) == IF sid \in DOMAIN stats THEN stats[sid] ELSE 0

\* one caller works on a registry of its own; its record keeps the call,
\* its arguments and the map as it was before the call
R_Register(t, serverID, list) ==
    /\ thr[t].pc = "idle"
    /\ registry' = Registry_RegisterTools(registry, serverID, list)
    /\ Set(t, [thr[t] EXCEPT !.op = "register", !.arg = serverID,
                             !.tools = list, !.snapR = registry])
    /\ UNCHANGED <<idGenerator, nconn, conns, trans, servers, cmu, nmsgs>>
R_Unregister(t, serverID) ==
    /\ thr[t].pc = "idle"
    /\ registry' = Registry_UnregisterServer(registry, serverID)
    /\ Set(t, [thr[t] EXCEPT !.op = "unregister", !.arg = serverID,
                             !.tools = <<>>, !.snapR = registry])
    /\ UNCHANGED <<idGenerator, nconn, conns, trans, servers, cmu, nmsgs>>
InitRegistry ==
    /\ idGenerator = 0
    /\ nconn = 0
    /\ conns = [c \in Conns |-> NoConn]
    /\ trans = [c \in Conns |-> NoTrans]
    /\ servers = [i \in ServerIDs |-> 0]
    /\ registry = NewRegistry
    /\ cmu = NoThread
    /\ thr = [t \in Threads |-> IF t = <<"task", 1>> THEN IdleRec
                                 ELSE [IdleRec EXCEPT !.pc = "off"]]
    /\ nmsgs = 0
NextRegistry ==
    \/ \E serverID \in ServerIDs : \E list \in ToolLists(MaxTools) :
          R_Register(<<"task", 1>>, serverID, list)
    \/ \E serverID \in ServerIDs : R_Unregister(<<"task", 1>>, serverID)
SpecRegistry == InitRegistry /\ [][NextRegistry]_vars

\* the caller whose calls are followed to their return values
Watcher == <<"task", 1>>

\* ---- StdioTransport used directly (Start, Send, Close by tasks) -------
\* A line of the child's standard output: key_id says whether the document
\* has an "id" member and whether it is null or a number; method is the
\* value of its "method" member or "absent".  BadLine is not a JSON object.
Docs == [key_id : {"absent", "null", "number"},
         method : {"absent", "", MethodToolsListChanged}]
BadLine == [key_id |-> "garbage", method |-> "garbage"]
\* variant: an "id" member that is null decodes to an id
parseMessage_Presence(doc) ==
    Msg(doc.key_id # "absent", IF doc.key_id = "number" THEN 1 ELSE 0,
        IF doc.method = "absent" THEN "" ELSE doc.method, "r0")
\* parseMessage: json.Unmarshal into Message{ID *int64, Method string}:
\* a null or absent id leaves ID nil, an absent method leaves Method ""
parseMessage(doc) ==
    Msg(doc.key_id = "number", IF doc.key_id = "number" THEN 1 ELSE 0,
        IF doc.method = "absent" THEN "" ELSE doc.method, "r0")

\* readLoop: one line of stdout; a line that does not parse is reported and
\* skipped; a message is pushed to the messages channel or dropped
T_ReadLine(c, doc) ==
    /\ trans[c].started /\ trans[c].alive /\ ~trans[c].closed
    /\ nmsgs < MaxMsgs
    /\ nmsgs' = nmsgs + 1
    /\ trans' = [trans EXCEPT ![c].line = doc,
                   ![c].messages = IF doc # BadLine /\ Len(@) < InboundCap
                                   THEN Append(@, parseMessage(doc)) ELSE @]
    /\ UNCHANGED <<idGenerator, nconn, conns, servers, registry, cmu, thr>>
\* the owner of the transport takes a message from Receive()
T_Recv(c) ==
    /\ trans[c].messages # <<>>
    /\ trans' = [trans EXCEPT ![c].messages = Tail(@)]
    /\ UNCHANGED <<idGenerator, nconn, conns, servers, registry, cmu, thr, nmsgs>>

\* Start (all of it under t.mu)
T_Start(t, c) ==
    /\ thr[t].pc = "idle"
    /\ trans[c].tmu = NoThread
    /\ LET r == [thr[t] EXCEPT !.op = "start", !.arg = "-", !.ret = NoRet] IN
       IF trans[c].started
       THEN Set(t, Ret(r, <<"e_started", c>>)) /\ UNCHANGED trans
       ELSE \/ Set(t, Ret(r, <<"e_start", c>>)) /\ UNCHANGED trans
            \/ Set(t, Ret(r, <<"ok", 0>>)) /\ trans' = [trans EXCEPT ![c] = Started(@)]
    /\ UNCHANGED <<idGenerator, nconn, conns, servers, registry, cmu, nmsgs>>

\* the messages the tasks send, each of them once
SendKinds == {MethodInitialize, MethodToolsList, MethodPing}
\* Send, first part: the checks of closed and started under t.mu
TS_Check(t, c, method) ==
    /\ thr[t].pc = "idle"
    /\ trans[c].tmu = NoThread
    /\ method \notin Methods(trans[c].stdin)
    /\ \A u \in Tasks : ~(thr[u].pc = "ts_write" /\ thr[u].arg = method)
    /\ LET r == [thr[t] EXCEPT !.op = "send", !.arg = method, !.ret = NoRet] IN
       IF trans[c].closed THEN Set(t, Ret(r, <<"e_closed", c>>))
       ELSE IF ~trans[c].started THEN Set(t, Ret(r, <<"e_notstarted", c>>))
       ELSE Set(t, [r EXCEPT !.pc = "ts_write", !.conn = c])
    /\ UNCHANGED <<idGenerator, nconn, conns, trans, servers, registry, cmu, nmsgs>>
\* Send, second part, without the lock: the check of ctx, then t.stdin.Write
TS_Write(t) ==
    /\ thr[t].pc = "ts_write"
    /\ LET c == ConnOf(t) IN
       \E done \in BOOLEAN :
          IF done THEN Set(t, Ret(thr[t], <<"e_ctx", c>>)) /\ UNCHANGED trans
          ELSE IF WriteFails(trans[c])
          THEN Set(t, Ret(thr[t], <<"e_write", c>>)) /\ UNCHANGED trans
          ELSE /\ Set(t, Ret(thr[t], <<"ok", 0>>))
               /\ trans' = [trans EXCEPT ![c] = Written(@, thr[t].arg)]
    /\ UNCHANGED <<idGenerator, nconn, conns, servers, registry, cmu, nmsgs>>

\* what Close returns
CloseResult(tr, c) == IF tr.closeErr THEN <<"e_close", c>> ELSE <<"ok", 0>>
\* Close, first part: t.mu.Lock(); a closed transport returns closeErr;
\* otherwise t.closed = true
TC_Mark(t, c) ==
    /\ thr[t].pc = "idle"
    /\ trans[c].tmu = NoThread
    /\ LET r == [thr[t] EXCEPT !.op = "tclose", !.arg = "-", !.ret = NoRet,
                               !.again = trans[c].closed] IN
       IF AlreadyClosed(trans[c])
       THEN Set(t, Ret(r, CloseResult(trans[c], c))) /\ UNCHANGED trans
       ELSE /\ Set(t, [r EXCEPT !.pc = "tc_body", !.conn = c])
            /\ trans' = [trans EXCEPT ![c] = [CloseMark(@) EXCEPT !.tmu = t]]
    /\ UNCHANGED <<idGenerator, nconn, conns, servers, registry, cmu, nmsgs>>
\* Close, second part: stdin, kill, feeds; unlock and return
TC_Body(t) ==
    /\ thr[t].pc = "tc_body"
    /\ LET c == ConnOf(t) IN
       \E e \in BOOLEAN :
          LET tr == [CloseBody(trans[c], e) EXCEPT !.tmu = NoThread] IN
          /\ trans' = [trans EXCEPT ![c] = tr]
          /\ Set(t, Ret(thr[t], CloseResult(tr, c)))
    /\ UNCHANGED <<idGenerator, nconn, conns, servers, registry, cmu, nmsgs>>

InitTransport ==
    /\ idGenerator = 0
    /\ nconn = 0
    /\ conns = [c \in Conns |-> NoConn]
    /\ trans = [c \in Conns |-> NoTrans]
    /\ servers = [i \in ServerIDs |-> 0]
    /\ registry = [n \in ToolNames |-> "-"]
    /\ cmu = NoThread
    /\ thr = [t \in Threads |-> IF t \in Tasks THEN [IdleRec EXCEPT !.watch = TRUE]
                                 ELSE [IdleRec EXCEPT !.pc = "off"]]
    /\ nmsgs = 0
NextTransport ==
    \/ \E t \in Tasks : T_Start(t, 1)
    \/ \E t \in Tasks : \E method \in SendKinds : TS_Check(t, 1, method)
    \/ \E t \in Tasks : TS_Write(t)
    \/ \E t \in Tasks : TC_Mark(t, 1)
    \/ \E t \in Tasks : TC_Body(t)
    \/ ProviderExit(1)
SpecTransport == InitTransport /\ [][NextTransport]_vars

\* ---- StdioTransport with its three goroutines and the steps of Close --
\* sendError: select { case t.errors <- err: default: }; a send on a feed
\* that Close has closed panics
SendError(tr) ==
    IF tr.feedsClosed THEN [tr EXCEPT !.panicked = TRUE]
    ELSE IF tr.errors < ErrCap THEN [tr EXCEPT !.errors = @ + 1, !.lostErr = FALSE]
    ELSE [tr EXCEPT !.lostErr = TRUE]
\* select { case t.messages <- msg: default: sendError(...) }
\* variant: the reader waits for room, which here overfills the feed
SendMessage_Blocking(tr, msg) ==
    IF tr.feedsClosed THEN [tr EXCEPT !.panicked = TRUE]
    ELSE [tr EXCEPT !.messages = Append(@, msg), !.dropped = FALSE]
SendMessage(tr, msg) ==
    IF tr.feedsClosed THEN [tr EXCEPT !.panicked = TRUE]
    ELSE IF Len(tr.messages) < InboundCap
    THEN [tr EXCEPT !.messages = Append(@, msg), !.dropped = FALSE]
    ELSE SendError([tr EXCEPT !.dropped = TRUE])
\* the lines the child writes in this part of the model: one that does not
\* parse, a notification and a response
FeedDocs == {BadLine,
             [key_id |-> "absent", method |-> MethodToolsListChanged],
             [key_id |-> "number", method |-> "absent"]}
\* the child writes a line to its stdout / to its stderr
P_Write(c, doc) ==
    /\ trans[c].started /\ trans[c].alive
    /\ nmsgs < MaxMsgs
    /\ nmsgs' = nmsgs + 1
    /\ trans' = [trans EXCEPT ![c].stdout = Append(@, doc)]
    /\ UNCHANGED <<idGenerator, nconn, conns, servers, registry, cmu, thr>>
P_WriteErr(c) ==
    /\ trans[c].started /\ trans[c].alive
    /\ trans[c].stderr = 0
    /\ trans' = [trans EXCEPT ![c].stderr = 1]
    /\ UNCHANGED <<idGenerator, nconn, conns, servers, registry, cmu, thr, nmsgs>>
\* variant: the reader gives up at a line that does not parse
AfterBadLine_Stops(tr) == [tr EXCEPT !.reading = FALSE]
\* readLoop: t.sendError(...); continue
AfterBadLine(tr) == tr
\* readLoop, one turn of the loop: scanner.Scan() gave a line
RL_Line(c) ==
    /\ trans[c].reading /\ trans[c].stdout # <<>>
    /\ LET doc == Head(trans[c].stdout)
           tr == [trans[c] EXCEPT !.stdout = Tail(@), !.line = doc] IN
       trans' = [trans EXCEPT ![c] =
                    IF doc = BadLine
                    THEN AfterBadLine(SendError([tr EXCEPT !.dropped = TRUE,
                                                            !.badSeen = TRUE]))
                    ELSE SendMessage(tr, parseMessage(doc))]
    /\ UNCHANGED <<idGenerator, nconn, conns, servers, registry, cmu, thr, nmsgs>>
\* readLoop: scanner.Scan() returned false, at the end of the output of a
\* child that has exited; scanner.Err() may be an error (the pipe was closed
\* under the reader), which is sent to the error feed
RL_End(c) ==
    /\ trans[c].reading /\ trans[c].stdout = <<>> /\ ~trans[c].alive
    /\ \E err \in BOOLEAN :
          LET tr == [trans[c] EXCEPT !.reading = FALSE] IN
          trans' = [trans EXCEPT ![c] = IF err THEN SendError(tr) ELSE tr]
    /\ UNCHANGED <<idGenerator, nconn, conns, servers, registry, cmu, thr, nmsgs>>
\* readStderr: every line of stderr is sent to the error feed
SE_Line(c) ==
    /\ trans[c].started /\ trans[c].stderr > 0
    /\ trans' = [trans EXCEPT ![c] = SendError([@ EXCEPT !.stderr = 0])]
    /\ UNCHANGED <<idGenerator, nconn, conns, servers, registry, cmu, thr, nmsgs>>
\* waitLoop: cmd.Wait() returns when the child has exited; its error (a
\* status other than 0, or the signal that ended it) is sent to the error feed
W_Exit(c) ==
    /\ trans[c].started /\ ~trans[c].alive /\ ~trans[c].waited
    /\ \E err \in BOOLEAN :
          LET tr == [trans[c] EXCEPT !.waited = TRUE] IN
          trans' = [trans EXCEPT ![c] = IF err THEN SendError(tr) ELSE tr]
    /\ UNCHANGED <<idGenerator, nconn, conns, servers, registry, cmu, thr, nmsgs>>
\* the owner of the transport takes an error from Errors()
T_RecvError(c) ==
    /\ trans[c].errors > 0
    /\ trans' = [trans EXCEPT ![c].errors = @ - 1]
    /\ UNCHANGED <<idGenerator, nconn, conns, servers, registry, cmu, thr, nmsgs>>

\* variant: the feeds are closed before standard input
CloseSteps_FeedsFirst == <<"feeds", "stdin", "kill">>
\* the order of the steps of Close after t.closed = true
CloseSteps == <<"stdin", "kill", "feeds">>
\* Close after TC_Mark, one step at a time under t.mu; thr[t].visited are
\* the steps done (for Kill: what it returned, or "exited" when the child
\* had exited before) and thr[t].errs the errors collected so far; the last
\* step sets closeErr, unlocks and returns
TC_Step(t) ==
    /\ thr[t].pc = "tc_body"
    /\ LET c == ConnOf(t)
           step == CloseSteps[Len(thr[t].visited) + 1]
           last == Len(thr[t].visited) + 1 = Len(CloseSteps) IN
       \E e \in BOOLEAN : \E out \in KillOutcomes(trans[c]) :
          LET tr == CASE step = "stdin" ->
                           IF trans[c].started THEN CloseStdin(trans[c]) ELSE trans[c]
                      [] step = "kill" ->
                           IF trans[c].started THEN Kill(trans[c], out) ELSE trans[c]
                      [] step = "feeds" -> CloseFeeds(trans[c])
              errs == CASE step = "stdin" ->
                           IF trans[c].started /\ e THEN Append(thr[t].errs, "stdin")
                           ELSE thr[t].errs
                        [] step = "kill" ->
                           IF trans[c].started /\ KillReported(out)
                           THEN Append(thr[t].errs, "kill") ELSE thr[t].errs
                        [] step = "feeds" -> thr[t].errs
              done == IF step = "kill" /\ trans[c].started
                      THEN (IF trans[c].alive THEN out ELSE "exited")
                      ELSE step
              fin == [tr EXCEPT !.closeErr = (errs # <<>>), !.nclose = @ + 1,
                                !.tmu = NoThread] IN
          IF last
          THEN /\ trans' = [trans EXCEPT ![c] = fin]
               /\ Set(t, [Ret(thr[t], CloseResult(fin, c)) EXCEPT
                             !.errs = errs, !.visited = Append(thr[t].visited, done)])
          ELSE /\ trans' = [trans EXCEPT ![c] = tr]
               /\ Set(t, [thr[t] EXCEPT !.errs = errs,
                      !.visited = Append(@, done)])
    /\ UNCHANGED <<idGenerator, nconn, conns, servers, registry, cmu, nmsgs>>

\* one task starts and closes the transport; the child writes and exits;
\* the three goroutines of Start run; the owner reads both feeds.  A panic
\* ends the program.
\* no goroutine runs on after a panic has ended the process
FeedsRun == ~trans[1].panicked
NextFeeds ==
    \/ FeedsRun /\ T_Start(Watcher, 1)
    \/ FeedsRun /\ TC_Mark(Watcher, 1)
    \/ FeedsRun /\ TC_Step(Watcher)
    \/ FeedsRun /\ \E doc \in FeedDocs : P_Write(1, doc)
    \/ FeedsRun /\ P_WriteErr(1)
    \/ FeedsRun /\ ProviderExit(1)
    \/ FeedsRun /\ RL_Line(1)
    \/ FeedsRun /\ RL_End(1)
    \/ FeedsRun /\ SE_Line(1)
    \/ FeedsRun /\ W_Exit(1)
    \/ FeedsRun /\ T_Recv(1)
    \/ FeedsRun /\ T_RecvError(1)
SpecFeeds == InitTransport /\ [][NextFeeds]_vars

\* the reading side of a transport: one task starts and closes it, the
\* child writes lines, the owner takes the messages
NextRead ==
    \/ T_Start(Watcher, 1)
    \/ TC_Mark(Watcher, 1)
    \/ TC_Body(Watcher)
    \/ \E doc \in Docs \cup {BadLine} : T_ReadLine(1, doc)
    \/ T_Recv(1)
    \/ ProviderExit(1)
SpecRead == InitTransport /\ [][NextRead]_vars

\* one caller that keeps what its calls return, and Client.Close
InitWatch ==
    /\ idGenerator = 2
    /\ nconn = 1
    /\ conns = [c \in Conns |-> IF c = 1
                 THEN [NoConn EXCEPT !.ID = "A", !.State = StateConnected, !.Tools = TRUE]
                 ELSE NoConn]
    /\ trans = [c \in Conns |-> IF c = 1
                 THEN [Started(NoTrans) EXCEPT
                          !.stdin = <<MethodInitialize, MethodInitialized, MethodToolsList>>]
                 ELSE NoTrans]
    /\ servers = [i \in ServerIDs |-> IF i = "A" THEN 1 ELSE 0]
    /\ registry = [n \in ToolNames |-> "A"]
    /\ cmu = NoThread
    /\ thr = [t \in Threads |-> IF t = Watcher THEN [IdleRec EXCEPT !.watch = TRUE]
                                 ELSE IF t \in Tasks THEN IdleRec
                                 ELSE IF t = Disp(1) THEN RecvRec(1)
                                 ELSE [IdleRec EXCEPT !.pc = "off"]]
    /\ nmsgs = 2
NextWatch == NextOf({Watcher}, ServerIDs, 2) \/ ClientClose(Watcher)
SpecWatch == InitWatch /\ [][NextWatch]_vars

\* two callers that keep what their calls return add the same provider,
\* each with a transport of its own
InitAdd ==
    /\ idGenerator = 0
    /\ nconn = 0
    /\ conns = [c \in Conns |-> NoConn]
    /\ trans = [c \in Conns |-> NoTrans]
    /\ servers = [i \in ServerIDs |-> 0]
    /\ registry = [n \in ToolNames |-> "-"]
    /\ cmu = NoThread
    /\ thr = [t \in Threads |-> IF t \in Tasks THEN [IdleRec EXCEPT !.watch = TRUE]
                                 ELSE [IdleRec EXCEPT !.pc = "off"]]
    /\ nmsgs = 0
\* the children answer the requests of their own connection and send no
\* notifications
NextAdd ==
    \/ \E t \in Tasks : AddServer(t, {"A"}, 2)
    \/ \E t \in Tasks : sendRequest(t)
    \/ \E c \in Conns : D_Recv(c) \/ D_End(c)
    \/ \E t \in Tasks : CtxDone(t)
    \/ \E c \in Conns : \E i \in conns[c].pendingReqs : \E p \in Payloads :
          ProviderSend(c, Msg(TRUE, i, "", p))
    \/ \E c \in Conns : ProviderExit(c)
SpecAdd == InitAdd /\ [][NextAdd]_vars

\* ---- the locks of the client, one step per Lock and Unlock ------------
\* Only the locking of each operation is kept: its script is the sequence
\* of Lock ("L"), RLock ("RL"), Unlock ("U"), RUnlock ("RU") calls it makes,
\* in the order of the code, with "run" for what it does in between.  The
\* locks are "c" (Client.mu), "reg" (Registry.mu) and one pending-table
\* lock per connection (ServerConnection.mu).
ConnLock(c) == IF c = 1 THEN "conn1" ELSE "conn2"
\* handleResponse: conn.mu.Lock(); lookup; conn.mu.Unlock(); hand-over
HandleResponseLocks(k) == <<<<"L", k>>, <<"U", k>>, <<"run", "hand">>>>
\* sendRequest: the pending entry is added under conn.mu; Send and the
\* select run without it; the deferred delete takes it again
SendRequestLocks(k) ==
    <<<<"L", k>>, <<"U", k>>, <<"run", "wait">>, <<"L", k>>, <<"U", k>>>>
\* RegisterTools, UnregisterServer, Clear: r.mu.Lock() ... Unlock()
RegistryWrite == <<<<"L", "reg">>, <<"U", "reg">>>>
\* GetTool: r.mu.RLock() ... RUnlock()
RegistryRead == <<<<"RL", "reg">>, <<"RU", "reg">>>>
\* variant: the tools are registered while the pending-table lock is held
FetchToolsLocks_UnderConnLock(k) ==
    {SendRequestLocks(k),
     <<<<"L", k>>, <<"U", k>>, <<"run", "wait">>, <<"L", k>>>> \o RegistryWrite
        \o <<<<"U", k>>>>}
\* fetchTools: nothing (no tools capability), sendRequest alone (it failed
\* or its result did not parse), or sendRequest and then RegisterTools
FetchToolsLocks(k) ==
    {<<>>, SendRequestLocks(k), SendRequestLocks(k) \o RegistryWrite}
\* AddServer holds c.mu from its first line to its return: the id exists or
\* Start fails; initializeServer fails; or initializeServer and fetchTools
AddServerLocks(k) ==
    {<<<<"L", "c">>, <<"U", "c">>>>,
     <<<<"L", "c">>>> \o SendRequestLocks(k) \o <<<<"U", "c">>>>}
    \cup {<<<<"L", "c">>>> \o SendRequestLocks(k) \o f \o <<<<"U", "c">>>> :
             f \in FetchToolsLocks(k)}
\* RemoveServer: not found; or UnregisterServer and Close under c.mu
RemoveServerLocks ==
    {<<<<"L", "c">>, <<"U", "c">>>>,
     <<<<"L", "c">>>> \o RegistryWrite \o <<<<"run", "close">>, <<"U", "c">>>>}
\* Client.Close: the transports are closed, then registry.Clear, under c.mu
ClientCloseLocks ==
    {<<<<"L", "c">>, <<"run", "close">>>> \o RegistryWrite \o <<<<"U", "c">>>>}
\* CallTool: GetTool; then the lookup of the connection under c.mu.RLock;
\* then sendRequest
CallToolLocks(k) ==
    {RegistryRead,
     RegistryRead \o <<<<"RL", "c">>, <<"RU", "c">>>>,
     RegistryRead \o <<<<"RL", "c">>, <<"RU", "c">>>> \o SendRequestLocks(k)}
\* the dispatch loop of a connection: handleResponse for a response,
\* fetchTools for tools/list_changed
DispatchLocks(k) == {HandleResponseLocks(k)} \cup (FetchToolsLocks(k) \ {<<>>})
\* what thread t may run next
ScriptsOf(t) ==
    IF t \in Disps THEN DispatchLocks(ConnLock(t[2]))
    ELSE RemoveServerLocks \cup ClientCloseLocks
         \cup UNION {AddServerLocks(ConnLock(c)) \cup CallToolLocks(ConnLock(c)) : c \in Conns}
\* the threads that hold lock n for writing / for reading
Writers(n) == {t \in Threads : <<"L", n>> \in thr[t].held}
Readers(n) == {t \in Threads : <<"RL", n>> \in thr[t].held}
\* the lock call that thread t is at, if it is at one: <<"L"|"RL", name>>
Wants(t) == IF thr[t].script # <<>> /\ Head(thr[t].script)[1] \in {"L", "RL"}
            THEN Head(thr[t].script) ELSE <<"-", "-">>
\* the threads whose hold on the lock keeps that call from returning
Blockers(t) == CASE Wants(t)[1] = "L"  -> Writers(Wants(t)[2]) \cup Readers(Wants(t)[2])
                 [] Wants(t)[1] = "RL" -> Writers(Wants(t)[2])
                 [] OTHER -> {}
\* sync.RWMutex: a Lock call that waits for readers also keeps later RLock
\* calls waiting
WaitsOn(t) ==
    Blockers(t) \cup
    (IF Wants(t)[1] = "RL" /\ Readers(Wants(t)[2]) # {}
     THEN {u \in Threads \ {t} : Wants(u) = <<"L", Wants(t)[2]>>} ELSE {})
LK_Begin(t) ==
    /\ thr[t].pc = "idle" /\ thr[t].script = <<>>
    /\ \E sc \in ScriptsOf(t) \ {<<>>} : Set(t, [thr[t] EXCEPT !.script = sc])
    /\ UNCHANGED <<idGenerator, nconn, conns, trans, servers, registry, cmu, nmsgs>>
LK_Step(t) ==
    /\ thr[t].script # <<>>
    /\ Blockers(t) = {}
    /\ LET st == Head(thr[t].script) IN
       Set(t, [thr[t] EXCEPT
                  !.script = Tail(@),
                  !.held = CASE st[1] \in {"L", "RL"} -> @ \cup {st}
                             [] st[1] = "U"  -> @ \ {<<"L", st[2]>>}
                             [] st[1] = "RU" -> @ \ {<<"RL", st[2]>>}
                             [] OTHER -> @])
    /\ UNCHANGED <<idGenerator, nconn, conns, trans, servers, registry, cmu, nmsgs>>
InitLocks ==
    /\ idGenerator = 0
    /\ nconn = 0
    /\ conns = [c \in Conns |-> NoConn]
    /\ trans = [c \in Conns |-> NoTrans]
    /\ servers = [i \in ServerIDs |-> 0]
    /\ registry = [n \in ToolNames |-> "-"]
    /\ cmu = NoThread
    /\ thr = [t \in Threads |-> IdleRec]
    /\ nmsgs = 0
NextLocks ==
    \/ \E t \in Threads : LK_Begin(t)
    \/ \E t \in Threads : LK_Step(t)
SpecLocks == InitLocks /\ [][NextLocks]_vars

\* ---- a burst of notifications on an established connection -----------
\* the child writes a notification; readLoop pushes it to the inbound feed
\* or drops it when the feed is full
P_Notify(c, method) ==
    /\ trans[c].started /\ trans[c].alive /\ ~trans[c].closed
    /\ nmsgs < MaxMsgs
    /\ nmsgs' = nmsgs + 1
    /\ trans' = [trans EXCEPT ![c] =
          IF Len(@.messages) < InboundCap
          THEN [@ EXCEPT !.messages = Append(@, Msg(FALSE, 0, method, "-"))]
          ELSE IF @.burst THEN @
          ELSE [@ EXCEPT !.burst = TRUE, !.burstAt = idGenerator]]
    /\ UNCHANGED <<idGenerator, nconn, conns, servers, registry, cmu, thr>>
\* the requests the child has received and not answered yet
Unanswered(c) ==
    {thr[t].reqID : t \in {u \in Threads : thr[u].pc = "sr_wait" /\ thr[u].conn = c}}
       \ trans[c].answeredIDs
\* the child writes the one response to request i; readLoop pushes it to
\* the inbound feed or drops it when the feed is full
P_Answer(c, i, pay) ==
    /\ trans[c].started /\ trans[c].alive /\ ~trans[c].closed
    /\ i \in Unanswered(c)
    /\ nmsgs < MaxMsgs
    /\ nmsgs' = nmsgs + 1
    /\ trans' = [trans EXCEPT ![c] =
          IF Len(@.messages) < InboundCap
          THEN [@ EXCEPT !.messages = Append(@, Msg(TRUE, i, "", pay)),
                         !.answeredIDs = @ \cup {i}]
          ELSE [@ EXCEPT !.answeredIDs = @ \cup {i}, !.droppedIDs = @ \cup {i}]]
    /\ UNCHANGED <<idGenerator, nconn, conns, servers, registry, cmu, thr>>
\* provider "A" is established with its tools; the count of lines starts here
InitBurst ==
    /\ idGenerator = 2
    /\ nconn = 1
    /\ conns = [c \in Conns |-> IF c = 1
                 THEN [NoConn EXCEPT !.ID = "A", !.State = StateConnected, !.Tools = TRUE]
                 ELSE NoConn]
    /\ trans = [c \in Conns |-> IF c = 1
                 THEN [Started(NoTrans) EXCEPT
                          !.stdin = <<MethodInitialize, MethodInitialized, MethodToolsList>>]
                 ELSE NoTrans]
    /\ servers = [i \in ServerIDs |-> IF i = "A" THEN 1 ELSE 0]
    /\ registry = [n \in ToolNames |-> "A"]
    /\ cmu = NoThread
    /\ thr = [t \in Threads |-> IF t = Watcher THEN [IdleRec EXCEPT !.watch = TRUE]
                                 ELSE IF t \in Tasks THEN IdleRec
                                 ELSE IF t = Disp(1) THEN RecvRec(1)
                                 ELSE [IdleRec EXCEPT !.pc = "off"]]
    /\ nmsgs = 0
\* one caller calls tools; the child sends notifications and answers every
\* request once; the caller's context is never done
NextPatient ==
    \/ CallTool(Watcher)
    \/ \E t \in {Watcher, Disp(1)} : sendRequest(t)
    \/ D_Recv(1) \/ D_AfterNotif(1)
    \/ NotifTimeout(1)
    \/ \E method \in {MethodProgress, MethodToolsListChanged} : P_Notify(1, method)
    \/ \E i \in 1..MaxID : \E pay \in Payloads : P_Answer(1, i, pay)
\* the same, with a caller whose context may be cancelled or time out
NextBurst == NextPatient \/ CtxDone(Watcher)
SpecBurst == InitBurst /\ [][NextBurst]_vars
\* every goroutine that can take a step of its code takes it, and the timer
\* of handleNotification's context fires
Runs == /\ WF_vars(CallTool(Watcher))
        /\ \A t \in {Watcher, Disp(1)} : WF_vars(sendRequest(t))
        /\ WF_vars(handleMessages(1))
        /\ WF_vars(NotifTimeout(1))
FairPatient == InitBurst /\ [][NextPatient]_vars /\ Runs
FairBurst == SpecBurst /\ Runs

\* ---- a line without id and without method ------------------------------
\* the JSON object {} as parseMessage decodes it: ID nil, Method ""
EmptyMsg == parseMessage([key_id |-> "absent", method |-> "absent"])
\* an established connection whose child also writes such lines
NextStray ==
    \/ CallTool(Watcher)
    \/ \E t \in {Watcher, Disp(1)} : sendRequest(t)
    \/ D_Recv(1) \/ D_AfterNotif(1)
    \/ CtxDone(Watcher)
    \/ NotifTimeout(1)
    \/ \E m \in ProviderMsgs(1) \cup {EmptyMsg} : ProviderSend(1, m)
SpecStray == InitBurst /\ [][NextStray]_vars

\* ---- Manager (the library-backed one): RefreshTools --------------------
\* Manager.clients is servers (0 = no client), Manager.tools is registry
\* (tool name -> ToolInfo.ServerID), Manager.mu is cmu.
\* what client.ListTools returns: an error, or the names of the listed tools
ListOutcomes == {[ok |-> FALSE, names |-> {}]}
                \cup {[ok |-> TRUE, names |-> ns] : ns \in SUBSET ToolNames}
\* variant: the table is not emptied first
RefreshStart_Keep(tools) == tools
\* m.tools = make(map[string]ToolInfo)
RefreshStart(tools) == Clear(tools)
\* Manager.fetchTools: ListTools; on an error nothing is stored, else every
\* listed tool is stored under its name with the id of the server
Manager_fetchTools(tools, serverID, out) ==
    IF out.ok THEN RegisterTools(tools, serverID, out.names) ELSE tools
\* m.mu.Lock(); the table is emptied; var lastErr error
RF_Begin(t) ==
    /\ thr[t].pc = "idle"
    /\ cmu = NoThread
    /\ cmu' = t
    /\ registry' = RefreshStart(registry)
    /\ Set(t, [thr[t] EXCEPT !.pc = "rf_loop", !.op = "refresh", !.ret = NoRet,
                              !.snapR = registry, !.tools = <<>>, !.errs = <<>>])
    /\ UNCHANGED <<idGenerator, nconn, conns, trans, servers, nmsgs>>
\* one round of  for id, c := range m.clients  (in the order of the map);
\* the record keeps the servers in the order of the loop with what each listed
RF_Each(t) ==
    /\ thr[t].pc = "rf_loop"
    /\ \E id \in {i \in ServerIDs : servers[i] # 0}
                   \ {thr[t].tools[k].id : k \in DOMAIN thr[t].tools} :
       \E out \in ListOutcomes :
         /\ registry' = Manager_fetchTools(registry, id, out)
         /\ Set(t, [thr[t] EXCEPT
                      !.tools = Append(@, [id |-> id, ok |-> out.ok, names |-> out.names]),
                      !.errs = IF out.ok THEN @ ELSE <<<<"e_list", servers[id]>>>>])
    /\ UNCHANGED <<idGenerator, nconn, conns, trans, servers, cmu, nmsgs>>
\* return lastErr
RF_End(t) ==
    /\ thr[t].pc = "rf_loop"
    /\ {i \in ServerIDs : servers[i] # 0}
          \subseteq {thr[t].tools[k].id : k \in DOMAIN thr[t].tools}
    /\ cmu' = NoThread
    /\ Set(t, [thr[t] EXCEPT !.pc = "idle",
                 !.ret = IF thr[t].errs = <<>> THEN <<"ok", 0>> ELSE thr[t].errs[1]])
    /\ UNCHANGED <<idGenerator, nconn, conns, trans, servers, registry, nmsgs>>
RefreshTools(t) == RF_Begin(t) \/ RF_Each(t) \/ RF_End(t)
\* any set of connected servers, with a table whose tools belong to them
InitRefresh ==
    /\ idGenerator = 0
    /\ nconn = 0
    /\ conns = [c \in Conns |-> NoConn]
    /\ trans = [c \in Conns |-> NoTrans]
    /\ servers \in {[i \in ServerIDs |-> IF i \in on THEN (IF i = "A" THEN 1 ELSE 2) ELSE 0] :
                      on \in SUBSET ServerIDs}
    /\ registry \in [ToolNames -> {i \in ServerIDs : servers[i] # 0} \cup {"-"}]
    /\ cmu = NoThread
    /\ thr = [t \in Threads |-> IF t = Watcher THEN [IdleRec EXCEPT !.watch = TRUE]
                                 ELSE [IdleRec EXCEPT !.pc = "off"]]
    /\ nmsgs = 0
NextRefresh == RefreshTools(Watcher)
SpecRefresh == InitRefresh /\ [][NextRefresh]_vars

\* the initial state of SpecTwo
Established ==
    /\ idGenerator = 2 /\ nconn = 1 /\ nmsgs = 2 /\ cmu = NoThread
    /\ conns[1] = [NoConn EXCEPT !.ID = "A", !.State = StateConnected, !.Tools = TRUE]
    /\ trans[1] = [Started(NoTrans) EXCEPT
                      !.stdin = <<MethodInitialize, MethodInitialized, MethodToolsList>>]
    /\ servers["A"] = 1 /\ \A n \in ToolNames : registry[n] = "A"
    /\ \A t \in Tasks : thr[t] = IdleRec
    /\ thr[Disp(1)] = RecvRec(1)
NotEstablished == ~Established

\* ---- correlation of requests and responses ----------------------------
AfterPCs == {"after_init", "after_list", "after_call", "after_notif"}
Pending(c) == conns[c].pendingReqs
\* thread t holds the request id it took in NewRequest
HoldsID(t) == thr[t].reqID # 0

\* C1: a sendRequest call that returns a response returns one whose id is
\* the id of the request that this call sent.
C1_ResponseMatchesRequest ==
    \A t \in Threads :
        (thr[t].pc \in AfterPCs /\ thr[t].res \in {"bad", "r0", "r1"})
            => thr[t].resID = thr[t].reqID
\* two requests are in flight on one connection and the later one has been
\* answered first
C1_Witness ==
    \E t, u \in Threads :
        /\ thr[t].pc = "after_call" /\ thr[t].res \in {"r0", "r1"}
        /\ thr[u].pc = "sr_wait" /\ thr[u].conn = thr[t].conn
        /\ thr[u].reqID < thr[t].reqID

UniqueIDs ==
    /\ \A t, u \in Threads :
          (t # u /\ HoldsID(t) /\ HoldsID(u)) => thr[t].reqID # thr[u].reqID
    /\ \A c, k \in Conns : c # k => Pending(c) \cap Pending(k) = {}
    /\ \A c \in Conns : \A i \in Pending(c) :
          Cardinality({t \in Threads : HasChan(thr[t]) /\ thr[t].reqID = i}) = 1
\* C2: the counter never decreases, every request takes an id above all ids
\* taken before, and no two requests in progress (so no two pending entries,
\* on one connection or on two) have the same id.
C2_UniqueIncreasingIDs ==
    [][/\ idGenerator' >= idGenerator
       /\ \A t \in Threads :
             (thr'[t].reqID # thr[t].reqID /\ thr'[t].reqID # 0)
                 => (thr'[t].reqID > idGenerator /\ thr'[t].reqID = idGenerator')
       /\ UniqueIDs']_vars
\* requests are pending on two connections at the same time
C2_Witness ==
    \E c, k \in Conns : c # k /\ Pending(c) # {} /\ Pending(k) # {}

\* C3: the pending table of a connection holds id i only while the call that
\* made i is inside sendRequest; with no call in progress it is empty.
C3_PendingOnlyWhileInCall ==
    \A c \in Conns : \A i \in Pending(c) :
        \E t \in Threads : thr[t].conn = c /\ thr[t].reqID = i /\ HasChan(thr[t])
\* calls have ended by a timeout and by a failed send, and the table is empty
C3_Witness ==
    \E t \in Threads : \E c \in Conns :
        /\ thr[t].pc = "after_call" /\ thr[t].res \in {"e_ctx", "e_send"}
        /\ thr[t].conn = c /\ Pending(c) = {}
        /\ trans[c].started

\* C4: a response is handed over only to the call that sent its id and only
\* into the empty channel of that call; a duplicate, a response without a
\* pending entry and a late response leave every thread as it is; the
\* dispatch loop can always take the next message; taking a message never
\* changes a pending table.
TakesMessage(c) == thr[Disp(c)].pc = "recv" /\ trans[c].messages # <<>>
                   /\ trans'[c].messages = Tail(trans[c].messages)
C4_OneDeliveryNonBlocking ==
    /\ [](\A c \in Conns :
            (thr[Disp(c)].pc = "recv" /\ trans[c].messages # <<>>) => ENABLED D_Recv(c))
    /\ [][/\ \A t \in Threads : Len(thr'[t].chan) <= 1
          /\ \A c \in Conns : TakesMessage(c) =>
               LET m == Head(trans[c].messages) IN
               /\ conns' = conns
               /\ \A t \in Threads :
                     thr'[t].chan # thr[t].chan =>
                        /\ IsResponse(m) /\ thr[t].chan = <<>>
                        /\ thr'[t].chan = <<ToResponse(m)>>
                        /\ thr[t].conn = c /\ thr[t].reqID = m.id /\ m.id \in Pending(c)
               /\ (IsResponse(m) /\ (m.id \notin Pending(c)
                                     \/ \E t \in Threads : thr[t].reqID = m.id /\ thr[t].chan # <<>>))
                     => thr' = thr]_vars
\* a second response with the id of a waiting call is at the head of the
\* feed while the first is still in the channel of that call
C4_Witness ==
    \E c \in Conns : \E t \in Threads :
        /\ thr[Disp(c)].pc = "recv" /\ trans[c].messages # <<>>
        /\ IsResponse(Head(trans[c].messages))
        /\ thr[t].pc = "sr_wait" /\ thr[t].conn = c
        /\ thr[t].reqID = Head(trans[c].messages).id
        /\ thr[t].chan # <<>>

\* ---- the dispatch loop and notifications ------------------------------
ResponseQueuedFor(c) ==
    \E k \in 1..Len(trans[c].messages) :
        IsResponse(trans[c].messages[k]) /\ trans[c].messages[k].id \in Pending(c)
\* C5: the dispatch loop of a connection is never inside sendRequest: it is
\* off, waiting for the inbound feed, routing a message or ended; so it is
\* never waiting for a response or a deadline while a response for a pending
\* request sits in the inbound feed.
C5_DispatchNeverInSendRequest ==
    \A c \in Conns :
        /\ ~InSendRequest(thr[Disp(c)])
        /\ ResponseQueuedFor(c) => thr[Disp(c)].pc # "sr_wait"

\* C6: when a connected provider that declared tools sends list_changed and
\* answers the resulting tools/list before the timeout, the handling of the
\* notification ends with the tools of that answer in the registry, owned by
\* the identifier of the connection.
C6_RefetchRegisters ==
    [][\A c \in Conns :
          (/\ thr[Disp(c)].pc = "after_notif" /\ thr'[Disp(c)].pc = "recv"
           /\ thr[Disp(c)].answered # "-"
           /\ conns[c].State = StateConnected /\ conns[c].Tools
           /\ servers[conns[c].ID] = c)
             => \A n \in ListedTools(thr[Disp(c)].answered) :
                    registry'[n] = conns[c].ID]_vars

\* C9: on every connection the first message written is initialize,
\* notifications/initialized is written only after the initialize result was
\* parsed (the state has left Connecting), and tools/list and tools/call are
\* written only after notifications/initialized.
Before(log, a, b) ==
    \A k \in 1..Len(log) : log[k] = b => \E j \in 1..(k - 1) : log[j] = a
C9_HandshakeOrder ==
    \A c \in Conns :
        LET log == trans[c].stdin IN
        /\ log # <<>> => log[1] = MethodInitialize
        /\ MethodInitialized \in Methods(log) => conns[c].State # StateConnecting
        /\ Before(log, MethodInitialized, MethodToolsList)
        /\ Before(log, MethodInitialized, MethodToolsCall)

\* ---- AddServer --------------------------------------------------------
\* thread t returns from AddServer with an error in this step: from the
\* failed Start, the failed initialize or the failed initialized notification
AddFails(t) ==
    /\ thr[t].op = "add" /\ thr'[t].pc = "idle"
    /\ thr[t].pc \in {"as_start", "after_init", "as_notify"}
\* C7: when AddServer returns an error (Start failed, initialize failed or
\* timed out, its result did not parse, the initialized notification was not
\* sent), the servers map and the registry are what they were when the call
\* began: no record under that id, no tool owned by that id.
C7_FailedAddLeavesNoTrace ==
    [][\A t \in Tasks : AddFails(t) =>
          /\ servers' = thr[t].snapS /\ registry' = thr[t].snapR
          /\ servers'[thr[t].arg] = 0
          /\ \A n \in ToolNames : registry'[n] # thr[t].arg]_vars
\* an AddServer of a second provider has failed after its handshake began
\* and has returned, with the first provider and its tools in place
C7_Witness ==
    \E c \in Conns :
        /\ conns[c].State = StateError /\ trans[c].closed
        /\ trans[c].stdin # <<>>
        /\ servers[conns[c].ID] = 0 /\ cmu = NoThread
        /\ \E k \in Conns : k # c /\ servers[conns[k].ID] = k
        /\ \E n \in ToolNames : registry[n] \in ServerIDs

\* C10: the state of a connection starts at Disconnected and changes only by
\* Disconnected -> Connecting, Connecting -> Connected, Connecting -> Error.
StateSteps(allowed) ==
    \A c \in Conns :
        conns'[c].State # conns[c].State
            => <<conns[c].State, conns'[c].State>> \in allowed
C10_StateMachine ==
    [][StateSteps({<<"none", StateDisconnected>>,
                   <<StateDisconnected, StateConnecting>>,
                   <<StateConnecting, StateConnected>>,
                   <<StateConnecting, StateError>>})]_vars
\* C10 as the code has it: a connection is created in Connecting, is never
\* Disconnected, and changes only by Connecting -> Connected, Connecting ->
\* Error and Connected -> Error; Error is terminal.
C10_StateMachineAmended ==
    /\ [](\A c \in Conns : conns[c].State # StateDisconnected)
    /\ [][StateSteps({<<"none", StateConnecting>>,
                      <<StateConnecting, StateConnected>>,
                      <<StateConnecting, StateError>>,
                      <<StateConnected, StateError>>})]_vars
\* a connection whose initialize result was parsed (capabilities stored,
\* state Connected) is in Error after its initialized notification failed
C10_Witness ==
    \E c \in Conns :
        /\ conns[c].State = StateError /\ conns[c].Tools
        /\ MethodInitialized \notin Methods(trans[c].stdin)

\* ---- a provider that exits without writing anything --------------------
\* AddServer calls against providers that never write to stdout: the inbound
\* feed stays empty, so of the dispatch loop only its end (after Close) runs.
NextQuiet ==
    \/ \E t \in Tasks : \E id \in ServerIDs : AS_Begin(t, id, 2)
    \/ \E t \in Tasks : AS_Start(t)
    \/ \E t \in Tasks : AS_AfterInit(t)
    \/ \E t \in Tasks : sendRequest(t)
    \/ \E t \in Tasks : CtxDone(t)
    \/ \E c \in Conns : ProviderExit(c)
    \/ \E c \in Conns : D_End(c)
\* a task that can take a step of its own code takes it; a started process
\* exits; nothing makes the caller's context end
Progress(t) == AS_Start(t) \/ AS_AfterInit(t) \/ sendRequest(t)
FairQuiet ==
    /\ Init /\ [][NextQuiet]_vars
    /\ \A t \in Tasks : WF_vars(Progress(t))
    /\ \A c \in Conns : WF_vars(ProviderExit(c)) /\ WF_vars(D_End(c))

\* C8: adding a provider whose process exits without writing any output
\* always ends: every AddServer call in progress returns, and no record of a
\* provider is ever stored.
C8_QuietAddReturns ==
    /\ \A t \in Tasks : (thr[t].pc # "idle") ~> (thr[t].pc = "idle")
    /\ [](\A id \in ServerIDs : servers[id] = 0)

\* thread t returns nil from AddServer in this step
AddSucceeds(t) == thr[t].pc = "as_store" /\ thr'[t].pc = "idle"
\* C11: when AddServer(P) returns nil the record of P is stored; if the
\* initialize result declared tools and tools/list returned a result, every
\* tool of that result is in the registry with owner P; if it declared no
\* tools, no tools/list was written to P and the registry is as it was when
\* the call began.
C11_AddRegistersTools ==
    [][\A t \in Tasks : AddSucceeds(t) =>
          LET c == ConnOf(t)
              P == thr[t].arg IN
          /\ servers'[P] = c
          /\ (conns[c].Tools /\ thr[t].cont = "list" /\ thr[t].res \in {"r0", "r1"})
                => \A n \in ListedTools(thr[t].res) : registry'[n] = P
          /\ ~conns[c].Tools
                => /\ MethodToolsList \notin Methods(trans[c].stdin)
                   /\ registry' = thr[t].snapR]_vars
\* provider B was added after A, declared tools and listed x only: x is now
\* owned by B, y still by A
C11_Witness ==
    \E c \in Conns :
        /\ servers["B"] = c /\ conns[c].Tools /\ conns[c].State = StateConnected
        /\ registry["x"] = "B" /\ registry["y"] = "A"
\* provider B was added and declared no tools
C11_WitnessNoTools ==
    \E c \in Conns :
        /\ servers["B"] = c /\ ~conns[c].Tools
        /\ MethodInitialized \in Methods(trans[c].stdin)

\* ---- CallTool, RemoveServer, Client.Close -----------------------------
\* task t starts a CallTool call in this step
StartsCallTool(t) ==
    thr[t].pc = "idle" /\ thr'[t].op = "call" /\ thr'[t] # thr[t]
\* C12: a CallTool call goes on to a connection only with a registered tool;
\* with a name that is not in the registry it returns the tool-not-found
\* error in its first step, and that step changes no counter, no pending
\* table, no transport, no connection record and no registry entry.
C12_UnknownToolTouchesNothing ==
    [][\A t \in Tasks : StartsCallTool(t) =>
          \/ /\ thr'[t].pc = "ct_lookup"
             /\ thr'[t].arg \in ServerIDs
             /\ \E n \in ToolNames : registry[n] = thr'[t].arg
          \/ /\ thr'[t].pc = "idle"
             /\ thr'[t].arg \in ToolNames /\ registry[thr'[t].arg] = "-"
             /\ thr'[t].ret = <<"e_toolnotfound", 0>>
             /\ UNCHANGED <<idGenerator, nconn, conns, trans, servers, registry, cmu, nmsgs>>
             /\ \A u \in Threads \ {t} : thr'[u] = thr[u]]_vars
\* a call of a name that is not registered has returned tool-not-found while
\* a connection is recorded and its transport is open
C12_Witness ==
    \E t \in Tasks : \E c \in Conns :
        /\ thr[t].pc = "idle" /\ thr[t].op = "call"
        /\ thr[t].ret = <<"e_toolnotfound", 0>>
        /\ c \in Recorded /\ trans[c].started /\ ~trans[c].closed

\* C13: RemoveServer(P) on a recorded id removes the registry entries of P,
\* then closes the transport of P, then deletes the record of P; when it has
\* run, whatever Close returned, no registry entry owned by P and no record
\* of P remain.
C13_RemoveOrderAndEffect ==
    [][\A t \in Tasks :
          /\ (thr[t].pc = "rs_unreg" /\ thr'[t].pc = "rs_close")
                => (servers'[thr[t].arg] = ConnOf(t) /\ trans' = trans)
          /\ (thr[t].pc = "rs_close" /\ thr'[t].pc = "idle")
                => /\ \A n \in ToolNames : registry[n] # thr[t].arg
                   /\ servers[thr[t].arg] = ConnOf(t)
                   /\ trans'[ConnOf(t)].closed
                   /\ \A n \in ToolNames : registry'[n] # thr[t].arg
                   /\ servers'[thr[t].arg] = 0]_vars

\* the outcome of closing the transports in the order q, given which of them
\* report a close error: the error of the first that does, or ok
FirstCloseError(q, tr) ==
    LET bad == {k \in 1..Len(q) : tr[q[k]].closeErr} IN
    IF bad = {} THEN <<"ok", 0>>
    ELSE <<"e_close", q[CHOOSE k \in bad : \A j \in bad : k <= j]>>
\* C14: when Client.Close returns, Close was called on the transport of every
\* record there was (all are closed, also after one of them reported an
\* error), no record and no registry entry is left, and the value returned is
\* the first close error met, or ok when there was none.
C14_CloseAll ==
    [][\A t \in Tasks : (thr[t].pc = "cl_loop" /\ thr'[t].pc = "idle") =>
          /\ \A id \in ServerIDs : thr[t].snapS[id] # 0 =>
                /\ thr[t].snapS[id] \in Range(thr[t].visited)
                /\ trans'[thr[t].snapS[id]].closed
          /\ \A id \in ServerIDs : servers'[id] = 0
          /\ \A n \in ToolNames : registry'[n] = "-"
          /\ thr[t].watch => thr'[t].ret = FirstCloseError(thr[t].visited, trans)]_vars
\* Client.Close has returned the close error of one transport; the other
\* transport reported an error too and is closed as well
C14_Witness ==
    \E t \in Tasks : \E c, k \in Conns :
        /\ thr[t].pc = "idle" /\ thr[t].op = "close" /\ thr[t].ret = <<"e_close", c>>
        /\ k # c /\ trans[k].closed /\ trans[k].closeErr /\ trans[c].closed
        /\ conns[k].State = StateConnected /\ conns[c].State = StateConnected
        /\ \A id \in ServerIDs : servers[id] = 0

\* C16: a Client.Close call made right after another Client.Close call of the
\* same caller returns what the first call returned.
C16_SecondCloseSameOutcome ==
    [][\A t \in Tasks :
          (thr[t].pc = "cl_loop" /\ thr'[t].pc = "idle" /\ thr[t].again)
              => thr'[t].ret = thr[t].ret]_vars

\* ---- StdioTransport.Close and Send ------------------------------------
\* t has returned from a Close call
ReturnedClose(r) == r.op = "tclose" /\ r.pc = "idle" /\ r.ret # NoRet
\* t returns from a Close call in this step
ReturnsClose(t) ==
    /\ thr'[t] # thr[t]
    /\ thr[t].pc \in {"idle", "tc_body"}
    /\ ReturnedClose(thr'[t])

\* C15: Close of a subprocess transport is idempotent: standard input, the
\* process and the feeds are shut down at most once; a Close call on a
\* transport that is already closed changes nothing; and every Close call
\* returns what the Close calls before it returned.
C15_CloseIdempotent ==
    /\ [](trans[1].nclose <= 1)
    /\ [][\A t \in Tasks : ReturnsClose(t) =>
             /\ trans[1].closed /\ thr[t].pc = "idle" => trans' = trans
             /\ thr'[t].ret = CloseResult(trans'[1], 1)
             /\ \A u \in Tasks : ReturnedClose(thr[u]) => thr'[t].ret = thr[u].ret]_vars
\* two Close calls have returned the error of the first
C15_Witness ==
    /\ thr[<<"task", 1>>].ret = <<"e_close", 1>> /\ ReturnedClose(thr[<<"task", 1>>])
    /\ thr[<<"task", 2>>].ret = <<"e_close", 1>> /\ ReturnedClose(thr[<<"task", 2>>])
    /\ thr[<<"task", 2>>].again
    /\ trans[1].started /\ trans[1].nclose = 1

\* a Close call has returned
CloseReturned(tr) == tr.closed /\ tr.tmu = NoThread
\* t calls Send in this step
CallsSend(t) == thr[t].pc = "idle" /\ thr'[t] # thr[t] /\ thr'[t].op = "send"

\* C20: Send on a transport that was never started or is closed returns an
\* error and writes nothing to standard input; after a Close call has
\* returned, no Send, begun before or after it, writes anything.
C20_SendNeedsOpenTransport ==
    [][/\ \A t \in Tasks : CallsSend(t) /\ (~trans[1].started \/ trans[1].closed) =>
             /\ thr'[t].pc = "idle" /\ thr'[t].ret[1] \in {"e_closed", "e_notstarted"}
             /\ trans' = trans
       /\ CloseReturned(trans[1]) => trans'[1].stdin = trans[1].stdin
       /\ ~trans[1].started => trans'[1].stdin = trans[1].stdin]_vars
\* a Send that passed the checks before Close found standard input closed
\* after it, and a Send begun after Close was refused
C20_Witness ==
    /\ thr[<<"task", 1>>].op = "send" /\ thr[<<"task", 1>>].ret = <<"e_closed", 1>>
    /\ thr[<<"task", 2>>].op = "send" /\ thr[<<"task", 2>>].ret = <<"e_write", 1>>
    /\ trans[1].nclose = 1 /\ trans[1].stdin = <<>>

\* ---- classification of incoming messages ------------------------------
\* the kinds a message is classified as
Kinds(m) == (IF IsRequest(m) THEN {"request"} ELSE {})
            \cup (IF IsResponse(m) THEN {"response"} ELSE {})
            \cup (IF IsNotification(m) THEN {"notification"} ELSE {})
\* the readLoop has parsed a line and put its message on the feed
Parsed == /\ trans'[1].messages = Append(trans[1].messages, parseMessage(trans'[1].line))
          /\ nmsgs' = nmsgs + 1
Last(q) == q[Len(q)]
\* the kind the members of the document stand for, given which documents
\* count as having an id and which as having a method
KindByMembers(withID, withMethod) ==
    IF withID /\ withMethod THEN {"request"}
    ELSE IF withID THEN {"response"}
    ELSE IF withMethod THEN {"notification"}
    ELSE {}

\* C19 as stated: a parsed document with an "id" member and a "method"
\* member is a request and nothing else, one with an id and no method a
\* response and nothing else, one with a method and no id a notification
\* and nothing else; no message is of two kinds.
C19_StructuralClassification ==
    [][Parsed =>
         LET d == trans'[1].line
             k == KindByMembers(d.key_id # "absent", d.method # "absent") IN
         /\ k # {} => Kinds(Last(trans'[1].messages)) = k
         /\ Cardinality(Kinds(Last(trans'[1].messages))) <= 1]_vars
\* C19 amended: the same with "has an id" read as "has an id that is a
\* number" and "has a method" as "has a method that is not the empty
\* string"; a document with neither is of no kind.
C19_ClassificationByValue ==
    [][Parsed =>
         LET d == trans'[1].line
             k == KindByMembers(d.key_id = "number", d.method \notin {"absent", ""}) IN
         /\ Kinds(Last(trans'[1].messages)) = k
         /\ Cardinality(Kinds(Last(trans'[1].messages))) <= 1]_vars
\* a request and then a document with a null id and a method were read,
\* and the second is on the feed as a notification
C19_Witness ==
    /\ Len(trans[1].messages) = 2
    /\ Kinds(trans[1].messages[1]) = {"request"}
    /\ trans[1].line = [key_id |-> "null", method |-> MethodToolsListChanged]
    /\ Kinds(trans[1].messages[2]) = {"notification"}

\* ---- Registry: registration and removal by provider -------------------
\* the names in a list of tools, and the last tool of a name in it
NamesIn(list) == {list[i].Name : i \in DOMAIN list}
LastOf(list, name) ==
    list[CHOOSE i \in DOMAIN list :
            /\ list[i].Name = name
            /\ \A j \in DOMAIN list : list[j].Name = name => j <= i]
\* the registry and the arguments of the last call of the caller
LastCall == thr[<<"task", 1>>]
Owned(tools, sid) == {n \in DOMAIN tools : tools[n] # NoTool /\ tools[n].ServerID = sid}

\* C17: registration is last-write-wins per name: after RegisterTools(B,
\* list) on a registry in which a name of the list was owned by another
\* provider A, GetTool of that name returns the tool of the list with owner
\* B, the name still has one entry (Count grows only by the names that were
\* new), and ServerStats counts every name under the provider that
\* registered it last: B for the names of the list, and for every other
\* name the provider that owned it before, so A's count has lost the names
\* B took over.
C17_LastWriteWins ==
    LastCall.op = "register" =>
       LET B == LastCall.arg
           list == LastCall.tools
           before == LastCall.snapR
           stats == Registry_ServerStats(registry) IN
       /\ \A x \in NamesIn(list) :
             Registry_GetTool(registry, x) =
                <<[LastOf(list, x) EXCEPT !.ServerID = B], TRUE>>
       /\ \A n \in ToolNames \ NamesIn(list) :
             Registry_GetTool(registry, n) = Registry_GetTool(before, n)
       /\ Registry_Count(registry) =
             Registry_Count(before)
                + Cardinality({x \in NamesIn(list) : before[x] = NoTool})
       /\ StatOf(stats, B) = Cardinality(Owned(before, B) \cup NamesIn(list))
       /\ \A A \in ServerIDs \ {B} :
             StatOf(stats, A) = Cardinality(Owned(before, A) \ NamesIn(list))
       /\ DOMAIN stats \subseteq ServerIDs
\* x and y were A's; B has registered x: x is B's, y is still A's
C17_Witness ==
    /\ LastCall.op = "register" /\ LastCall.arg = "B"
    /\ NamesIn(LastCall.tools) = {"x"}
    /\ Owned(LastCall.snapR, "A") = {"x", "y"}
    /\ Registry_GetTool(registry, "x")[1].ServerID = "B"
    /\ Registry_ServerStats(registry) = [sid \in {"A", "B"} |-> 1]

\* C18: UnregisterServer(A) removes exactly the entries owned by A: after
\* it no entry is owned by A, and every entry of another provider is there
\* as before, with its name, description and owner.
C18_UnregisterExactlyOwned ==
    LastCall.op = "unregister" =>
       LET A == LastCall.arg
           before == LastCall.snapR IN
       /\ Owned(registry, A) = {}
       /\ \A n \in ToolNames :
             IF n \in Owned(before, A) THEN ~Registry_GetTool(registry, n)[2]
             ELSE Registry_GetTool(registry, n) = Registry_GetTool(before, n)
\* A owned x, B owned y; A was unregistered and B's entry is left
C18_Witness ==
    /\ LastCall.op = "unregister" /\ LastCall.arg = "A"
    /\ Owned(LastCall.snapR, "A") = {"x"}
    /\ Owned(LastCall.snapR, "B") = {"y"}
    /\ Owned(registry, "B") = {"y"}
    /\ Registry_Count(registry) = 1

\* ---- StdioTransport: feeds, readers and the steps of Close ------------
\* the standard-output reader handles a line in this step
ReadsLine == /\ trans[1].reading /\ trans[1].stdout # <<>>
             /\ trans'[1].stdout = Tail(trans[1].stdout)
             /\ trans'[1].line = Head(trans[1].stdout)
\* ... a line that parses, while the inbound feed is full and open
ReadsAtFull == /\ ReadsLine /\ Head(trans[1].stdout) # BadLine
               /\ Len(trans[1].messages) = InboundCap /\ ~trans[1].feedsClosed
\* the reader is never blocked: whenever a line is in the pipe and the
\* reader is in its loop, the step that handles the line can be taken
ReaderNeverBlocks == [](trans[1].reading /\ trans[1].stdout # <<>> /\ ~trans[1].panicked
                          => ENABLED RL_Line(1))

\* C21 as stated: the inbound feed never holds more than its capacity, the
\* reader is never blocked by it, and every message that arrives while it
\* is full is dropped with an error emitted on the error feed.
C21_DropReportsError ==
    /\ [](Len(trans[1].messages) <= InboundCap)
    /\ ReaderNeverBlocks
    /\ [][ReadsAtFull => /\ trans'[1].messages = trans[1].messages
                         /\ trans'[1].errors = trans[1].errors + 1]_vars
\* C21 amended: ... dropped, and an error is emitted on the error feed
\* unless the error feed is itself full, in which case nothing is emitted
\* and the reader goes on all the same.
C21_DropReportsErrorIfRoom ==
    /\ [](Len(trans[1].messages) <= InboundCap)
    /\ [](trans[1].errors <= ErrCap)
    /\ ReaderNeverBlocks
    /\ [][ReadsAtFull =>
            /\ trans'[1].messages = trans[1].messages
            /\ trans'[1].errors = IF trans[1].errors < ErrCap
                                  THEN trans[1].errors + 1 ELSE trans[1].errors
            /\ trans'[1].reading /\ ~trans'[1].panicked]_vars
\* both feeds are full, a message that parsed has just been dropped and
\* its error discarded, and the reader is still in its loop
C21_Witness ==
    /\ Len(trans[1].messages) = InboundCap /\ trans[1].errors = ErrCap
    /\ trans[1].line \in FeedDocs \ {BadLine}
    /\ trans[1].dropped /\ trans[1].lostErr
    /\ trans[1].reading /\ ~trans[1].feedsClosed /\ ~trans[1].panicked

\* the task that closes the transport, and the step of Close it takes
Closer == thr[Watcher]
CloseStep == Closer.pc = "tc_body" /\ thr'[Watcher] # Closer
KillResults == {"nil", "other", "exited"}

\* C27: the first Close of a started transport closes standard input, then
\* terminates the process if it has not exited, then closes the feeds:
\* standard input is closed before anything else, the kill comes after it,
\* and when the feeds are closed standard input is closed and the kill has
\* been attempted (the process is gone unless Kill reported an error).
C27_CloseOrder ==
    [][CloseStep /\ trans[1].started =>
         /\ trans[1].stdinOpen /\ ~trans'[1].stdinOpen =>
               Closer.visited = <<>> /\ ~trans[1].feedsClosed
         /\ Len(thr'[Watcher].visited) = 2 /\ Len(Closer.visited) = 1 =>
               /\ ~trans[1].stdinOpen /\ ~trans[1].feedsClosed
               /\ thr'[Watcher].visited[2] \in KillResults
               /\ thr'[Watcher].visited[2] # "other" => ~trans'[1].alive
         /\ ~trans[1].feedsClosed /\ trans'[1].feedsClosed =>
               /\ ~trans[1].stdinOpen
               /\ Range(Closer.visited) \cap KillResults # {}
               /\ "other" \notin Range(Closer.visited) => ~trans[1].alive]_vars
\* Close has closed standard input and killed the live process, and is
\* about to close the feeds
C27_Witness ==
    /\ Closer.pc = "tc_body" /\ Closer.visited = <<"stdin", "nil">>
    /\ trans[1].started /\ ~trans[1].stdinOpen /\ ~trans[1].alive
    /\ ~trans[1].feedsClosed

\* C28: Close of a transport whose process had exited on its own does not
\* report the kill of the finished process: when closing standard input
\* succeeded, it returns no error and stores none.
C28_ExitedProcessIsSuccess ==
    [][CloseStep /\ ReturnsClose(Watcher) /\ trans[1].started
          /\ "exited" \in Range(Closer.visited) /\ "stdin" \notin Range(Closer.errs)
       => thr'[Watcher].ret = <<"ok", 0>> /\ ~trans'[1].closeErr]_vars
\* the child exited, waitLoop saw it, and the Close after that returned nil
C28_Witness ==
    /\ ReturnedClose(Closer) /\ Closer.ret = <<"ok", 0>>
    /\ Closer.visited = <<"stdin", "exited", "feeds">>
    /\ trans[1].waited /\ trans[1].feedsClosed /\ ~trans[1].panicked

\* the reader handles a line that does not parse / one that parses
ReadsBadLine == ReadsLine /\ Head(trans[1].stdout) = BadLine
ReadsGoodLine == ReadsLine /\ Head(trans[1].stdout) # BadLine
\* a line that parses is put on the inbound feed when the feed has room
GoodLineDelivered ==
    ReadsGoodLine /\ Len(trans[1].messages) < InboundCap /\ ~trans[1].feedsClosed
       => trans'[1].messages =
             Append(trans[1].messages, parseMessage(Head(trans[1].stdout)))

\* C29 as stated: a line that does not parse is dropped and reported on the
\* error feed, is never put on the inbound feed, leaves the pending tables
\* and the connection states as they are, and every line after it that
\* parses is still delivered.
C29_BadLineOnlyItself ==
    [][/\ ReadsBadLine => /\ trans'[1].messages = trans[1].messages
                          /\ trans'[1].errors = trans[1].errors + 1
                          /\ conns' = conns
                          /\ trans'[1].reading
       /\ GoodLineDelivered]_vars
\* C29 amended: while the feeds are open, ... reported on the error feed
\* if that feed has room and discarded silently if not ...
C29_BadLineReportedIfRoom ==
    [][/\ ReadsBadLine /\ ~trans[1].feedsClosed =>
             /\ trans'[1].messages = trans[1].messages
             /\ trans'[1].errors = IF trans[1].errors < ErrCap
                                   THEN trans[1].errors + 1 ELSE trans[1].errors
             /\ conns' = conns /\ thr' = thr
             /\ trans'[1].reading /\ ~trans'[1].panicked
       /\ GoodLineDelivered]_vars
\* after a line that did not parse, whose error was discarded, the line
\* read last parsed and is the newest message on the inbound feed
C29_Witness ==
    /\ trans[1].badSeen /\ trans[1].lostErr /\ ~trans[1].dropped
    /\ trans[1].line \in FeedDocs \ {BadLine}
    /\ trans[1].messages # <<>>
    /\ Last(trans[1].messages) = parseMessage(trans[1].line)
    /\ trans[1].errors = ErrCap /\ ~trans[1].panicked

\* C30: no reader goroutine of the transport (readLoop, readStderr,
\* waitLoop) ever sends on the inbound feed or the error feed after Close
\* has closed it.
C30_NoSendOnClosedFeed == [](~trans[1].panicked)

\* ---- AddServer: teardown on failure -----------------------------------
\* C26: on every failure path of AddServer (Start failed, initialize failed
\* or timed out, its result did not parse, the initialized notification was
\* not sent) Close has been called on the transport of the call by the time
\* the call returns.
C26_FailedAddClosesTransport ==
    [][\A t \in Tasks : AddFails(t) => trans'[ConnOf(t)].closed]_vars

\* ---- CallTool: failures of one request --------------------------------
\* thread t is in a CallTool whose request fails in this step: sendRequest
\* returns an error to it (send failure, RPC error, context done), or
\* CallTool returns the error or the parse error to its caller
FailsCall(t) ==
    /\ thr[t].op = "call"
    /\ \/ /\ thr[t].pc \in {"sr_send", "sr_wait"}
          /\ thr'[t].pc = "after_call" /\ IsErr(thr'[t].res)
       \/ /\ thr[t].pc = "after_call" /\ thr'[t].pc = "idle"
          /\ IsErr(thr[t].res) \/ thr[t].res = "bad"

\* C24: a failing CallTool (RPC error, result that does not parse, context
\* cancelled or timed out) leaves the servers map, the state of every
\* connection, the transports and the registry as they are, and the other
\* pending requests and their callers untouched; the connection it used, if
\* still recorded, is Connected; an RPC error is returned to the caller
\* whose request id the response carried.
C24_RequestFailureKeepsConnection ==
    [][\A t \in Tasks : FailsCall(t) =>
          /\ servers' = servers /\ registry' = registry
          /\ \A c \in Conns :
                /\ conns'[c].State = conns[c].State
                /\ trans'[c] = trans[c]
                /\ conns'[c].pendingReqs \subseteq conns[c].pendingReqs
                /\ conns[c].pendingReqs \ {thr[t].reqID} \subseteq conns'[c].pendingReqs
          /\ \A id \in ServerIDs :
                servers'[id] = ConnOf(t) => conns'[ConnOf(t)].State = StateConnected
          /\ \A u \in Threads \ {t} : thr'[u] = thr[u]
          /\ thr'[t].res = "e_rpc" => thr'[t].resID = thr[t].reqID]_vars
\* a tools/call has come back with an RPC error while another request is
\* pending on the same connection, which is recorded, Connected and open
C24_Witness ==
    \E t \in Tasks : \E u \in Threads \ {t} :
        /\ thr[t].op = "call" /\ thr[t].pc = "after_call" /\ thr[t].res = "e_rpc"
        /\ thr[u].pc = "sr_wait" /\ thr[u].conn = thr[t].conn
        /\ thr[u].reqID \in conns[thr[t].conn].pendingReqs
        /\ servers["A"] = thr[t].conn
        /\ conns[thr[t].conn].State = StateConnected
        /\ ~trans[thr[t].conn].closed

\* ---- bursts and dropped responses -------------------------------------
\* the threads that send requests on connection 1
Requesters == {Watcher, Disp(1)}
\* thread t waits for the response to request i, which the child has written
WaitsAnswered(t, i) ==
    /\ thr[t].pc = "sr_wait" /\ thr[t].conn = 1 /\ thr[t].reqID = i
    /\ i \in trans[1].answeredIDs
\* thread t waits for a response that was dropped at the inbound feed
WaitsDropped(t) ==
    /\ thr[t].pc = "sr_wait" /\ thr[t].conn = 1
    /\ thr[t].reqID \in trans[1].droppedIDs

\* C22: after a burst of notifications that overflowed the inbound feed, a
\* request made afterwards on the same connection, whose response the
\* child writes after the burst, returns that response (the caller's
\* context is never done).
C22_ResponseAfterBurst ==
    \A i \in 1..MaxID :
       (WaitsAnswered(Watcher, i) /\ trans[1].burst /\ i > trans[1].burstAt)
          ~> (thr[Watcher].pc = "after_call" /\ thr[Watcher].resID = i)

\* C23: a response dropped at the inbound feed is never delivered later:
\* the sendRequest call waiting for it returns only when its context is
\* done, with the context's error and its pending entry deleted; it can
\* return as soon as the context is done, and then it does return.
C23_DroppedResponseStalls ==
    /\ [][\A t \in Requesters : WaitsDropped(t) /\ thr'[t].pc # "sr_wait" =>
             /\ thr[t].ctxDone /\ thr'[t].res = "e_ctx"
             /\ thr'[t].pc = AfterPC(thr[t].cont)
             /\ thr[t].reqID \notin conns'[1].pendingReqs]_vars
    /\ [](\A t \in Requesters : WaitsDropped(t) => thr[t].chan = <<>>)
    /\ [](\A t \in Requesters : WaitsDropped(t) /\ thr[t].ctxDone => ENABLED SR_Wait(t))
    /\ \A t \in Requesters : (WaitsDropped(t) /\ thr[t].ctxDone) ~> (thr[t].pc # "sr_wait")
\* the caller's tools/call, whose response was dropped, has returned the
\* error of its context
C23_Witness ==
    /\ thr[Watcher].pc = "after_call" /\ thr[Watcher].res = "e_ctx"
    /\ thr[Watcher].reqID \in trans[1].droppedIDs
    /\ thr[Watcher].reqID \notin conns[1].pendingReqs
    /\ trans[1].messages # <<>>

\* ---- locks ------------------------------------------------------------
PendingLocks == {ConnLock(c) : c \in Conns}
HoldsLock(t, n) == <<"L", n>> \in thr[t].held \/ <<"RL", n>> \in thr[t].held
\* a set of threads each of which waits for a lock held by one of the set
WaitCycle(S) == S # {} /\ \A t \in S : WaitsOn(t) \cap S # {}

\* C25: no thread ever holds a pending-table lock and the registry lock at
\* the same time, and no set of threads ever waits for each other's locks
\* (client lock, pending-table locks, registry lock) in a cycle.
C25_LocksNeverNested ==
    /\ \A t \in Threads : \A k \in PendingLocks :
          ~(HoldsLock(t, k) /\ HoldsLock(t, "reg"))
    /\ \A S \in SUBSET Threads : ~WaitCycle(S)
\* one caller is inside the registry under the client lock, the other
\* waits for the client lock, and a dispatch loop holds its pending-table lock
C25_Witness ==
    /\ thr[<<"task", 1>>].held = {<<"L", "c">>, <<"L", "reg">>}
    /\ Wants(<<"task", 2>>) = <<"L", "c">>
    /\ thr[Disp(1)].held = {<<"L", "conn1">>}
    /\ Wants(Disp(2)) = <<"L", "reg">>

\* ---- the connection set and the registry ------------------------------
\* C31: every connection in Client.servers (what GetServer and ListServers
\* return) is in state Connected.
C31_RetainedIsConnected ==
    \A id \in ServerIDs : servers[id] # 0 => conns[servers[id]].State = StateConnected
\* a record is retained although its transport was closed (RemoveServer
\* failed), next to a connection in state Error that was not retained
C31_Witness ==
    /\ \E id \in ServerIDs : servers[id] # 0 /\ trans[servers[id]].closed
    /\ \E c \in Conns : conns[c].State = StateError /\ servers[conns[c].ID] # c

\* no AddServer, RemoveServer or Client.Close call is between its first and
\* its last step
NoneInProgress == \A t \in Tasks : thr[t].pc = "idle" \/ thr[t].op = "call"
\* C32: while no AddServer, RemoveServer or Close call is in progress, the
\* owner of every tool in the registry has a connection in Client.servers.
C32_ToolsHaveRecords ==
    NoneInProgress =>
        \A n \in ToolNames : registry[n] # "-" => servers[registry[n]] # 0
\* B was added with its tools after RemoveServer("A") had failed
C32_Witness ==
    /\ NoneInProgress
    /\ \E n \in ToolNames : registry[n] = "B"
    /\ servers["A"] # 0 /\ trans[servers["A"]].closed

\* task t takes the first step of an AddServer call
BeginsAdd(t) == thr[t].pc = "idle" /\ thr'[t] # thr[t] /\ thr'[t].op = "add"
\* task t takes the last step of a successful AddServer call
StoresAdd(t) == thr[t].pc = "as_store" /\ thr'[t].pc = "idle"
\* C33: AddServer with an id that has a connection record fails without
\* starting a transport and without changing the records or the registry;
\* of the AddServer calls for one id at most one is past the existence
\* check at a time, and a record is stored only where there was none.
C33_DuplicateAddFails ==
    /\ [][\A t \in Tasks :
            BeginsAdd(t) /\ servers[thr'[t].arg] # 0
               => /\ thr'[t].pc = "idle" /\ thr'[t].ret = <<"e_exists", 0>>
                  /\ UNCHANGED <<nconn, conns, trans, servers, registry>>]_vars
    /\ [](Cardinality({t \in Tasks : thr[t].op = "add" /\ thr[t].pc # "idle"}) <= 1)
    /\ [][\A t \in Tasks : StoresAdd(t) => servers[thr[t].arg] = 0]_vars
\* one caller's AddServer("A") has succeeded and the other's has failed;
\* the second transport was never made or started
C33_Witness ==
    /\ thr[<<"task", 1>>].ret = <<"ok", 0>>
    /\ thr[<<"task", 2>>].ret = <<"e_exists", 0>>
    /\ servers["A"] = 1 /\ nconn = 1 /\ ~trans[2].started

\* the tools/list request of AddServer failed, or its result did not parse
ListFailed(t) == thr[t].pc = "as_store" /\ (IsErr(thr[t].res) \/ thr[t].res = "bad")
\* C34: when tools/list fails after a successful handshake, AddServer
\* returns nil, the connection is stored in state Connected with LastError
\* set, and the registry holds no tool of that server.
C34_ListFailureNotFatal ==
    [][\A t \in Tasks :
          ListFailed(t) /\ thr'[t] # thr[t]
             => /\ thr'[t].pc = "idle" /\ thr'[t].ret = <<"ok", 0>>
                /\ servers'[thr[t].arg] = ConnOf(t)
                /\ conns'[ConnOf(t)].State = StateConnected
                /\ conns'[ConnOf(t)].LastError
                /\ \A n \in ToolNames : registry'[n] # thr[t].arg]_vars
\* AddServer("B") has returned nil for a server that declared tools and
\* whose tools/list failed
C34_Witness ==
    /\ thr[Watcher].pc = "idle" /\ thr[Watcher].op = "add"
    /\ thr[Watcher].ret = <<"ok", 0>>
    /\ servers["B"] = 2 /\ conns[2].Tools /\ conns[2].LastError
    /\ conns[2].State = StateConnected
    /\ \A n \in ToolNames : registry[n] # "B"

\* ---- Registry: a name registered by two servers ------------------------
\* the caller's record keeps its last three calls: the call, the server id
\* and the names of the tools passed
LastThree(q) == IF Len(q) > 3 THEN Tail(q) ELSE q
H_Register(t, serverID, list) ==
    /\ thr[t].pc = "idle"
    /\ registry' = Registry_RegisterTools(registry, serverID, list)
    /\ Set(t, [thr[t] EXCEPT !.op = "register", !.arg = serverID,
                 !.visited = LastThree(Append(@, [op |-> "register", sid |-> serverID,
                                                  names |-> NamesIn(list)]))])
    /\ UNCHANGED <<idGenerator, nconn, conns, trans, servers, cmu, nmsgs>>
H_Unregister(t, serverID) ==
    /\ thr[t].pc = "idle"
    /\ registry' = Registry_UnregisterServer(registry, serverID)
    /\ Set(t, [thr[t] EXCEPT !.op = "unregister", !.arg = serverID,
                 !.visited = LastThree(Append(@, [op |-> "unregister", sid |-> serverID,
                                                  names |-> {}]))])
    /\ UNCHANGED <<idGenerator, nconn, conns, trans, servers, cmu, nmsgs>>
NextShadow ==
    \/ \E serverID \in ServerIDs : \E list \in ToolLists(MaxTools) :
          H_Register(Watcher, serverID, list)
    \/ \E serverID \in ServerIDs : H_Unregister(Watcher, serverID)
SpecShadow == InitRegistry /\ [][NextShadow]_vars
Calls == thr[Watcher].visited
\* the last calls were RegisterTools(A, ..x..), RegisterTools(B, ..x..) and
\* then UnregisterServer(gone)
ShadowedThen(A, B, x, gone) ==
    /\ Len(Calls) = 3
    /\ Calls[1].op = "register" /\ Calls[1].sid = A /\ x \in Calls[1].names
    /\ Calls[2].op = "register" /\ Calls[2].sid = B /\ x \in Calls[2].names
    /\ Calls[3].op = "unregister" /\ Calls[3].sid = gone
\* C36: after RegisterTools(A, [x]), RegisterTools(B, [x]) and
\* UnregisterServer(B), GetTool(x) reports not found; after UnregisterServer(A)
\* in place of UnregisterServer(B), x is present and owned by B.
C36_ShadowedNotRestored ==
    \A A \in ServerIDs : \A B \in ServerIDs \ {A} : \A x \in ToolNames :
       /\ ShadowedThen(A, B, x, B) => ~Registry_GetTool(registry, x)[2]
       /\ ShadowedThen(A, B, x, A) =>
             /\ Registry_GetTool(registry, x)[2]
             /\ Registry_GetTool(registry, x)[1].ServerID = B
\* A registered x and y, B registered x, B was unregistered: x is gone and
\* y is still A's
C36_Witness ==
    /\ ShadowedThen("A", "B", "x", "B")
    /\ Calls[1].names = {"x", "y"} /\ Calls[2].names = {"x"}
    /\ ~Registry_GetTool(registry, "x")[2]
    /\ Registry_GetTool(registry, "y")[1].ServerID = "A"

\* ---- a message that is no request, response or notification -----------
\* the dispatch loop of c takes a message without id and method
TakesStray(c) ==
    /\ thr[Disp(c)].pc = "recv"
    /\ trans[c].messages # <<>>
    /\ Head(trans[c].messages) = EmptyMsg
    /\ trans'[c].messages = Tail(trans[c].messages)
\* C37: a message with neither id nor method is no request, no response
\* and no notification; the dispatch loop takes it from the feed and
\* changes nothing else: pending entries, response channels, registry,
\* connections and what was written to the transport stay as they were.
C37_StrayMessageIgnored ==
    [][\A c \in Conns :
          TakesStray(c) =>
             /\ ~IsRequest(EmptyMsg) /\ ~IsResponse(EmptyMsg) /\ ~IsNotification(EmptyMsg)
             /\ trans' = [trans EXCEPT ![c].messages = Tail(@)]
             /\ UNCHANGED <<idGenerator, conns, servers, registry, thr>>]_vars
\* such a message is next in the feed, ahead of another message, while a
\* request is pending and the dispatch loop is about to take it
C37_Witness ==
    /\ thr[Disp(1)].pc = "recv"
    /\ Len(trans[1].messages) = 2
    /\ Head(trans[1].messages) = EmptyMsg
    /\ conns[1].pendingReqs # {}

\* ---- Manager.RefreshTools ------------------------------------------------
\* the servers in the order of the loop, with what each listed
Listings == thr[Watcher].tools
Listers(n) == {k \in DOMAIN Listings : Listings[k].ok /\ n \in Listings[k].names}
Failures == {k \in DOMAIN Listings : ~Listings[k].ok}
Greatest(S) == CHOOSE k \in S : \A j \in S : j <= k
RefreshReturned == thr[Watcher].pc = "idle" /\ thr[Watcher].op = "refresh"
\* C38: when RefreshTools returns, every connected server was listed once,
\* the table holds exactly the names listed by servers whose listing
\* succeeded, each under the server that was processed last among those
\* that listed it, and the result is the error of the last listing that
\* failed (nil when none failed).
C38_RefreshRebuildsTable ==
    RefreshReturned =>
       /\ {Listings[k].id : k \in DOMAIN Listings} = {i \in ServerIDs : servers[i] # 0}
       /\ Len(Listings) = Cardinality({i \in ServerIDs : servers[i] # 0})
       /\ \A n \in ToolNames :
             registry[n] = IF Listers(n) = {} THEN "-"
                           ELSE Listings[Greatest(Listers(n))].id
       /\ thr[Watcher].ret = IF Failures = {} THEN <<"ok", 0>>
                             ELSE <<"e_list", servers[Listings[Greatest(Failures)].id]>>
\* A's listing failed and the tool A had is gone; B, processed before or
\* after it, listed its tools; the error is returned
C38_Witness ==
    /\ RefreshReturned
    /\ \E k \in Failures : Listings[k].id = "A"
    /\ \E n \in ToolNames : thr[Watcher].snapR[n] = "A" /\ registry[n] # "A"
    /\ \E n \in ToolNames : registry[n] = "B"
    /\ thr[Watcher].ret = <<"e_list", 1>>

\* ---- requests pending when the transport is closed ---------------------
\* thread t waits in the select of sendRequest on a closed transport
WaitsOnClosed(t) == thr[t].pc = "sr_wait" /\ trans[ConnOf(t)].closed
\* t leaves the select
LeavesWait(t) == thr[t].pc = "sr_wait" /\ thr'[t].pc # "sr_wait"
\* the response to t's request has been read from the child: it is in the
\* inbound feed or in the channel of the request
InHand(t) ==
    \/ thr[t].chan # <<>>
    \/ \E k \in DOMAIN trans[ConnOf(t)].messages :
          LET m == trans[ConnOf(t)].messages[k] IN IsResponse(m) /\ m.id = thr[t].reqID
\* the dispatch loop of a closed transport ends when the feed is drained
DispatchEnds ==
    \A c \in Conns :
       trans[c].closed /\ thr[Disp(c)].pc = "recv" /\ trans[c].messages = <<>>
          => ENABLED D_End(c)
\* C35: after the transport of a connection was closed with requests
\* pending, its dispatch loop ends and every pending sendRequest call
\* returns only with the error of its own context, never with a response.
C35_CloseCompletesNothing ==
    /\ [](DispatchEnds)
    /\ [][\A t \in Threads :
            WaitsOnClosed(t) /\ LeavesWait(t)
               => thr[t].ctxDone /\ thr'[t].res = "e_ctx"]_vars
\* C35 with the responses that were read before the close: the dispatch
\* loop ends once the feed is drained; a pending call whose response is
\* neither in the feed nor in its channel never gets one and returns only
\* with the error of its own context.
C35_CloseCompletesNothingNew ==
    /\ [](DispatchEnds)
    /\ [][\A t \in Threads :
            WaitsOnClosed(t) /\ ~InHand(t)
               => /\ LeavesWait(t) => thr[t].ctxDone /\ thr'[t].res = "e_ctx"
                  /\ ~LeavesWait(t) => (WaitsOnClosed(t) /\ ~InHand(t))']_vars
\* a caller waits on a transport that another caller closed; no response
\* for it was read, and the dispatch loop has ended
C35_Witness ==
    \E t \in Tasks :
       /\ WaitsOnClosed(t) /\ ~InHand(t) /\ ~thr[t].ctxDone
       /\ thr[Disp(ConnOf(t))].pc = "ended"

====
